---------------------------- MODULE Spec2Model ----------------------------
(***************************************************************************)
(* Model of the stock-movement explanation engine.                         *)
(*                                                                         *)
(*   - the MoveEngine pipeline (src/src): explain_move, quick_check,       *)
(*     batch_analyze, with the analyzer, the market-data metrics and the   *)
(*     AI explanation engine (parse, confidence, fallback);                *)
(*   - the backend pipeline (src/backend): explain_movement with the       *)
(*     backend AI engine's reply parser.                                   *)
(*                                                                         *)
(* Percentages are integers in hundredths of a percent (1.5% = 150),       *)
(* confidence scores are integers in hundredths (0.4 = 40), prices and     *)
(* volumes are integers.  A text is a sequence of tokens; a reply is a     *)
(* sequence of lines, a line a sequence of tokens.                         *)
(***************************************************************************)
EXTENDS Integers, Sequences, FiniteSets, TLC

VARIABLES
    pc,          \* position of the evaluation in flight
    calls,       \* collaborator calls made so far, in order
    world,       \* what the collaborators answered in this evaluation
    move,        \* explain_move: move_analysis (step 1)
    context,     \* explain_move: context_analysis (step 2)
    result,      \* what the caller receives
    cls_in,      \* classifier: the inputs drawn
    cls_out,     \* classifier: the classification computed
    b_symbols,   \* batch: the input symbol list
    b_world,     \* batch: what the collaborators hold for each symbol
    b_idx,       \* batch: position of the loop
    b_results,   \* batch: the results dictionary, <<key, value>> pairs in insertion order
    b_pc,        \* batch: "loop" while batch_analyze runs, "returned" after
    be_pc,       \* backend: position of the request in flight
    be_market,   \* backend: what get_stock_data answered
    be_news,     \* backend: the news items found
    be_oracle,   \* backend: what the oracle answered
    be_resp,     \* backend: what the caller receives
    be_prev,     \* backend: an earlier request on the same evidence: its reply, its confidence
    args,        \* a single call of one operation: its name and arguments
    ret          \* a single call of one operation: what it returned

engineVars == <<pc, calls, world, move, context, result>>

clsVars == <<cls_in, cls_out>>

batchVars == <<b_symbols, b_world, b_idx, b_results, b_pc>>

backendVars == <<be_pc, be_market, be_news, be_oracle, be_resp, be_prev>>

callVars == <<args, ret>>

vars == <<engineVars, clsVars, batchVars, backendVars, callVars>>

\* Python's None for a text; an optional number is <<>> (None) or <<v>>.
None == "None"

NoNum == <<>>

\* A record-valued variable before it is assigned.
NoRec == [kind |-> "none"]

Abs(x) == IF x < 0 THEN -x ELSE x

Max2(a, b) == IF a > b THEN a ELSE b

Min2(a, b) == IF a < b THEN a ELSE b

\* Python round(n/d) for d > 0: nearest integer, ties to even.
RoundHalfEven(n, d) ==
    LET q == n \div d
        r == n % d
    IN  IF 2 * r > d THEN q + 1
        ELSE IF 2 * r < d THEN q
        ELSE IF q % 2 = 0 THEN q ELSE q + 1

RECURSIVE SumSeq(_)
SumSeq(s) == IF s = <<>> THEN 0 ELSE Head(s) + SumSeq(Tail(s))

\* s[-n:] : the last n elements of s (all of s when it is shorter).
LastN(s, n) ==
    IF Len(s) <= n THEN s ELSE SubSeq(s, Len(s) - n + 1, Len(s))

(***************************************************************************)
(* src/src/analyzer.py : the contextual classifier                         *)
(***************************************************************************)

\* A seeded fault: zero counted as the same direction as anything non-negative.
same_direction_zero_non_negative(a, b) == (a >= 0) = (b >= 0)

same_direction(a, b) == a * b > 0

\* A seeded fault: the stock_specific cutoff taken inclusively.
classify_move_inclusive(stock_pct, market_pct, sector_pct) ==
    LET market_diff == Abs(stock_pct - market_pct)
    IN  IF same_direction(stock_pct, market_pct) /\ market_diff < 150
        THEN "market_driven"
        ELSE IF /\ sector_pct # NoNum
                /\ same_direction(stock_pct, sector_pct[1])
                /\ Abs(stock_pct - sector_pct[1]) < market_diff
                /\ Abs(stock_pct - sector_pct[1]) < 200
        THEN "sector_driven"
        ELSE IF market_diff >= 300 THEN "stock_specific"
        ELSE "mixed_influence"

classify_move(stock_pct, market_pct, sector_pct) ==
    LET market_diff == Abs(stock_pct - market_pct)
    IN  IF same_direction(stock_pct, market_pct) /\ market_diff < 150
        THEN "market_driven"
        ELSE IF /\ sector_pct # NoNum
                /\ same_direction(stock_pct, sector_pct[1])
                /\ Abs(stock_pct - sector_pct[1]) < market_diff
                /\ Abs(stock_pct - sector_pct[1]) < 200
        THEN "sector_driven"
        ELSE IF market_diff > 300 THEN "stock_specific"
        ELSE "mixed_influence"

correlation_indicator(val1, val2) ==
    IF val1 * val2 < 0 THEN "negative"
    ELSE IF Abs(val1 - val2) < 100 THEN "strong"
    ELSE IF Abs(val1 - val2) < 250 THEN "moderate"
    ELSE "weak"

(***************************************************************************)
(* src/src/market_data.py : price and volume metrics, market context       *)
(***************************************************************************)

\* A day of bars as the provider returns it: day.ok = FALSE when the provider
\* has no bar for the date (fetch_stock_data / get_day_data raise ValueError).
\* previous_close is NoNum when the frame holds one row.  history holds the
\* volumes of the bars before the target date, oldest first.

\* price_change_pct is rounded to two places; is_significant is decided on
\* the unrounded value: |close - prev| / prev * 100 >= 2.0.
calculate_price_change(day) ==
    IF day.previous_close = NoNum
    THEN [price_change_pct |-> 0, is_significant |-> FALSE]
    ELSE LET prev == day.previous_close[1]
         IN  [price_change_pct |-> RoundHalfEven((day.close - prev) * 10000, prev),
              is_significant |-> Abs(day.close - prev) * 100 >= 2 * prev]

lookback_days == 30

\* The record returned when no bar precedes the target date carries no
\* "volume" key: volume = NoNum.
detect_volume_anomaly(day) ==
    LET historical == LastN(day.history, lookback_days)
    IN  IF historical = <<>>
        THEN [volume |-> NoNum, avg_volume |-> 0, volume_ratio |-> 100,
              volume_spike |-> FALSE]
        ELSE LET total == SumSeq(historical)
                 n == Len(historical)
             IN  [volume |-> <<day.volume>>,
                  avg_volume |-> total \div n,
                  volume_ratio |-> IF total > 0
                                   THEN RoundHalfEven(day.volume * n * 100, total)
                                   ELSE 100,
                  volume_spike |-> IF total > 0
                                   THEN 2 * day.volume * n >= 3 * total
                                   ELSE FALSE]

\* The classification of get_market_context, on the rounded percentages.
MarketContextClassification(stock_pct, market_pct) ==
    LET relative_strength == stock_pct - market_pct
    IN  IF Abs(relative_strength) < 100 THEN "market_driven"
        ELSE IF same_direction(stock_pct, market_pct) /\ Abs(relative_strength) < 300
        THEN "market_influenced"
        ELSE "stock_specific"

get_market_context(stock_day, market_day) ==
    LET stock_pct == calculate_price_change(stock_day).price_change_pct
        market_pct == calculate_price_change(market_day).price_change_pct
    IN  [stock_change_pct |-> stock_pct,
         market_change_pct |-> market_pct,
         relative_strength |-> stock_pct - market_pct,
         classification |-> MarketContextClassification(stock_pct, market_pct)]

RaiseRec(exc) == [kind |-> "raise", exc |-> exc]

\* A seeded fault: the gate decided on the price move alone.
analyze_move_price_only(stock_day, market_day) ==
    IF ~stock_day.ok \/ ~market_day.ok THEN RaiseRec("ValueError")
    ELSE LET price_metrics == calculate_price_change(stock_day)
             volume_metrics == detect_volume_anomaly(stock_day)
         IN  [kind |-> "move_analysis",
              price_metrics |-> price_metrics,
              volume_metrics |-> volume_metrics,
              market_context |-> get_market_context(stock_day, market_day),
              requires_explanation |-> price_metrics.is_significant]

\* analyze_move: the day's data, the price and volume metrics and the market
\* context (against ^GSPC), then the significance flag.  A missing bar of the
\* stock or of the market index raises.
analyze_move(stock_day, market_day) ==
    IF ~stock_day.ok \/ ~market_day.ok THEN RaiseRec("ValueError")
    ELSE LET price_metrics == calculate_price_change(stock_day)
             volume_metrics == detect_volume_anomaly(stock_day)
         IN  [kind |-> "move_analysis",
              price_metrics |-> price_metrics,
              volume_metrics |-> volume_metrics,
              market_context |-> get_market_context(stock_day, market_day),
              requires_explanation |-> price_metrics.is_significant
                                         \/ volume_metrics.volume_spike]

(***************************************************************************)
(* src/src/analyzer.py : analyze_performance_context                       *)
(***************************************************************************)

\* sector_day.ok = FALSE: the sector series could not be fetched; the
\* exception is caught and sector_change stays None.
analyze_performance_context(stock_day, market_day, sector_day) ==
    IF ~stock_day.ok \/ ~market_day.ok THEN RaiseRec("ValueError")
    ELSE LET stock_pct == calculate_price_change(stock_day).price_change_pct
             market_pct == calculate_price_change(market_day).price_change_pct
             sector_pct == IF sector_day.ok
                           THEN <<calculate_price_change(sector_day).price_change_pct>>
                           ELSE NoNum
             stock_volume == detect_volume_anomaly(stock_day)
         IN  [kind |-> "context_analysis",
              stock |-> [change_pct |-> stock_pct,
                         volume_spike |-> stock_volume.volume_spike,
                         volume_ratio |-> stock_volume.volume_ratio],
              market |-> [change_pct |-> market_pct],
              \* "sector": None when no sector series was obtained
              sector |-> sector_pct,
              classification |-> classify_move(stock_pct, market_pct, sector_pct),
              correlations |->
                  [market_correlation |-> correlation_indicator(stock_pct, market_pct),
                   sector_correlation |-> IF sector_pct = NoNum THEN None
                                          ELSE correlation_indicator(stock_pct, sector_pct[1])],
              relative_strength |->
                  [vs_market |-> stock_pct - market_pct,
                   vs_sector |-> IF sector_pct = NoNum THEN NoNum
                                 ELSE <<stock_pct - sector_pct[1]>>]]

(***************************************************************************)
(* src/src/ai_engine.py : AIExplanationEngine                              *)
(***************************************************************************)

\* _build_evidence_summary.  volume_metrics["volume"] raises KeyError when the
\* volume record carries no "volume" key; context_analysis.get("sector", {})
\* returns None when the key holds None, and None.get raises AttributeError.
build_evidence_summary(price_metrics, volume_metrics, context_analysis, news_summary) ==
    IF volume_metrics.volume = NoNum THEN RaiseRec("KeyError")
    ELSE IF context_analysis.sector = NoNum THEN RaiseRec("AttributeError")
    ELSE [kind |-> "evidence",
          price_change_pct |-> price_metrics.price_change_pct,
          is_significant |-> price_metrics.is_significant,
          volume |-> volume_metrics.volume[1],
          avg_volume |-> volume_metrics.avg_volume,
          volume_ratio |-> volume_metrics.volume_ratio,
          volume_spike |-> volume_metrics.volume_spike,
          market_change_pct |-> context_analysis.market.change_pct,
          sector_change_pct |-> context_analysis.sector[1],
          classification |-> context_analysis.classification,
          relative_strength |-> context_analysis.relative_strength.vs_market,
          news_count |-> news_summary.count,
          has_significant_news |-> news_summary.has_significant_news]

\* Tokens of a reply line.
PRIMARY_DRIVER == "PRIMARY DRIVER:"

SUPPORTING_FACTORS == "SUPPORTING FACTORS:"

EXPLANATION == "EXPLANATION:"

BULLET == "-"

StartsWith(line, token) == line # <<>> /\ Head(line) = token

\* str.replace(token, ""): every occurrence of the token removed.
Without(line, token) == SelectSeq(line, LAMBDA t : t # token)

\* " ".join(lines)
RECURSIVE JoinLines(_)
JoinLines(lines) ==
    IF lines = <<>> THEN <<>>
    ELSE IF Len(lines) = 1 THEN lines[1]
    ELSE lines[1] \o <<" ">> \o JoinLines(Tail(lines))

\* "\n".join(lines): the reply as one text.
RECURSIVE FullText(_)
FullText(lines) ==
    IF lines = <<>> THEN <<>>
    ELSE IF Len(lines) = 1 THEN lines[1]
    ELSE lines[1] \o <<"\n">> \o FullText(Tail(lines))

\* One step of the loop of _parse_explanation; st holds primary_driver,
\* supporting_factors, explanation_lines and current_section.
ParseExplanationLine(st, line) ==
    IF line = <<>> THEN st
    ELSE IF StartsWith(line, PRIMARY_DRIVER)
    THEN [st EXCEPT !.primary_driver = Without(line, PRIMARY_DRIVER),
                    !.current_section = "primary"]
    ELSE IF StartsWith(line, SUPPORTING_FACTORS)
    THEN [st EXCEPT !.current_section = "supporting"]
    ELSE IF StartsWith(line, EXPLANATION)
    THEN [st EXCEPT !.current_section = "explanation"]
    ELSE IF StartsWith(line, BULLET) /\ st.current_section = "supporting"
    THEN [st EXCEPT !.supporting_factors = Append(@, Tail(line))]
    ELSE IF st.current_section = "explanation"
    THEN [st EXCEPT !.explanation_lines = Append(@, line)]
    ELSE st

RECURSIVE ParseExplanationLoop(_, _)
ParseExplanationLoop(st, lines) ==
    IF lines = <<>> THEN st
    ELSE ParseExplanationLoop(ParseExplanationLine(st, Head(lines)), Tail(lines))

parse_explanation(explanation_text) ==
    LET st == ParseExplanationLoop(
                  [primary_driver |-> <<>>, supporting_factors |-> <<>>,
                   explanation_lines |-> <<>>, current_section |-> None],
                  explanation_text)
        explanation == JoinLines(st.explanation_lines)
    IN  [primary_driver |-> st.primary_driver,
         supporting_factors |-> st.supporting_factors,
         explanation |-> IF st.primary_driver = <<>> /\ explanation = <<>>
                         THEN FullText(explanation_text)
                         ELSE explanation]

\* A seeded fault: the penalty for a volume spike without significant news
\* left out.
calculate_confidence_without_conflict_penalty(evidence) ==
    LET confidence ==
            50
            + (IF evidence.has_significant_news /\ evidence.news_count >= 3 THEN 20
               ELSE IF evidence.news_count >= 1 THEN 10 ELSE 0)
            + (IF evidence.volume_spike THEN 15 ELSE 0)
            + (IF evidence.classification \in {"market_driven", "stock_specific"} THEN 10
               ELSE IF evidence.classification = "sector_driven" THEN 5 ELSE 0)
            - (IF Abs(evidence.price_change_pct) < 100 THEN 10 ELSE 0)
    IN  Max2(30, Min2(95, confidence))

\* _calculate_confidence; the classification read is that of the context
\* analysis, which the evidence carries unchanged.
\* A seeded fault: the penalty for a very small move doubled.
confidence_before_clamp_small_move_doubled(evidence) ==
    50
    + (IF evidence.has_significant_news /\ evidence.news_count >= 3 THEN 20
       ELSE IF evidence.news_count >= 1 THEN 10 ELSE 0)
    + (IF evidence.volume_spike THEN 15 ELSE 0)
    + (IF evidence.classification \in {"market_driven", "stock_specific"} THEN 10
       ELSE IF evidence.classification = "sector_driven" THEN 5 ELSE 0)
    - (IF Abs(evidence.price_change_pct) < 100 THEN 20 ELSE 0)
    - (IF evidence.volume_spike /\ ~evidence.has_significant_news THEN 5 ELSE 0)

\* The value of "confidence" when the return statement is reached.
confidence_before_clamp(evidence) ==
    50
    + (IF evidence.has_significant_news /\ evidence.news_count >= 3 THEN 20
       ELSE IF evidence.news_count >= 1 THEN 10 ELSE 0)
    + (IF evidence.volume_spike THEN 15 ELSE 0)
    + (IF evidence.classification \in {"market_driven", "stock_specific"} THEN 10
       ELSE IF evidence.classification = "sector_driven" THEN 5 ELSE 0)
    - (IF Abs(evidence.price_change_pct) < 100 THEN 10 ELSE 0)
    - (IF evidence.volume_spike /\ ~evidence.has_significant_news THEN 5 ELSE 0)

calculate_confidence(evidence) == Max2(30, Min2(95, confidence_before_clamp(evidence)))

\* A seeded fault: the two supporting factors in the other order, and one
\* primary driver for every classification.
generate_fallback_explanation_swapped(price_metrics, context_analysis, evidence) ==
    [kind |-> "explanation",
     path |-> "fallback",
     price_change_pct |-> price_metrics.price_change_pct,
     primary_driver |-> <<"Stock-specific movement of", "price_change%">>,
     supporting_factors |-> << <<"Market context:", "market_change_pct%">>,
                               <<"Volume was", "volume_ratio", "x average">> >>,
     move_classification |-> context_analysis.classification,
     confidence |-> 40,
     evidence |-> evidence]

\* _generate_fallback_explanation: texts built from the evidence alone; a
\* formatted evidence value stands in the text as the token naming it.
generate_fallback_explanation(price_metrics, context_analysis, evidence) ==
    LET classification == context_analysis.classification
        primary ==
            IF classification = "market_driven"
            THEN <<"Moved in line with broader market", "(market_change_pct%)">>
            ELSE IF classification = "sector_driven"
            THEN <<"Followed sector trend", "(sector_change_pct%)">>
            ELSE <<"Stock-specific movement of", "price_change%">>
    IN  [kind |-> "explanation",
         path |-> "fallback",
         price_change_pct |-> price_metrics.price_change_pct,
         primary_driver |-> primary,
         supporting_factors |-> << <<"Volume was", "volume_ratio", "x average">>,
                                   <<"Market context:", "market_change_pct%">> >>,
         move_classification |-> classification,
         confidence |-> 40,
         evidence |-> evidence]

\* An oracle outcome: the call raised (timeout, transport or API error), it
\* returned a reply, or it returned a message whose content is None.
OracleFailed == [ok |-> FALSE, content |-> FALSE, text |-> <<>>]

OracleReplied(text) == [ok |-> TRUE, content |-> TRUE, text |-> text]

OracleNoContent == [ok |-> TRUE, content |-> FALSE, text |-> <<>>]

\* generate_explanation: the evidence is built outside the try block, the
\* oracle call, the parse and the confidence inside it (a content of None
\* makes explanation_text.strip() raise there).
generate_explanation(price_metrics, volume_metrics, context_analysis, news_summary, oracle) ==
    LET evidence == build_evidence_summary(price_metrics, volume_metrics,
                                         context_analysis, news_summary)
    IN  IF evidence.kind = "raise" THEN evidence
        ELSE IF ~oracle.ok \/ ~oracle.content
        THEN generate_fallback_explanation(price_metrics, context_analysis, evidence)
        ELSE LET parsed == parse_explanation(oracle.text)
             IN  [kind |-> "explanation",
                  path |-> "parsed",
                  price_change_pct |-> price_metrics.price_change_pct,
                  primary_driver |-> parsed.primary_driver,
                  supporting_factors |-> parsed.supporting_factors,
                  move_classification |-> context_analysis.classification,
                  confidence |-> calculate_confidence(evidence),
                  evidence |-> evidence]

(***************************************************************************)
(* What the collaborators may answer                                       *)
(***************************************************************************)

MaxReplyLines == 2

SeqsUpTo(S, n) == UNION {[1..k -> S] : k \in 0..n}

Day(prev, close, history, volume) ==
    [ok |-> TRUE, previous_close |-> prev, close |-> close,
     history |-> history, volume |-> volume]

\* The provider has no bar for the date.
FailDay ==
    [ok |-> FALSE, previous_close |-> NoNum, close |-> 0,
     history |-> <<>>, volume |-> 0]

\* <<previous close, close>>: one row only, 0%, +0.8%, +2%, +5%, -2.5%, and
\* +1.995..% (rounded to 2.00).
PricePairs ==
    {<<NoNum, 1000>>, <<<<1000>>, 1000>>, <<<<1000>>, 1008>>, <<<<1000>>, 1020>>,
     <<<<1000>>, 1050>>, <<<<1000>>, 975>>, <<<<2005>>, 2045>>}

\* <<volumes before the target day, volume of the target day>>
VolumeProfiles ==
    {<< <<>>, 100>>, << <<0, 0>>, 100>>, << <<100, 100>>, 100>>,
     << <<100, 100>>, 150>>, << <<100, 100>>, 149>>,
     << <<1000, 1000>>, 1497>>}

StockDays ==
    {FailDay} \cup {Day(p[1], p[2], v[1], v[2]) : p \in PricePairs, v \in VolumeProfiles}

MarketDays ==
    {FailDay} \cup {Day(<<1000>>, c, <<100>>, 100) : c \in {1000, 1003, 980, 1030}}

SectorDays ==
    {FailDay} \cup {Day(<<1000>>, c, <<100>>, 100) : c \in {1000, 1046, 990}}

\* summarize_news of the articles found: none; some, none significant; some,
\* one significant; three or more.
NewsSummaries ==
    {[count |-> 0, has_significant_news |-> FALSE],
     [count |-> 1, has_significant_news |-> FALSE],
     [count |-> 1, has_significant_news |-> TRUE],
     [count |-> 3, has_significant_news |-> FALSE],
     [count |-> 3, has_significant_news |-> TRUE]}

EngineLines ==
    {<<PRIMARY_DRIVER, "foo">>, <<PRIMARY_DRIVER>>, <<SUPPORTING_FACTORS>>,
     <<EXPLANATION>>, <<BULLET, "a">>, <<"bar">>}

EngineOracleOutcomes ==
    {OracleFailed, OracleNoContent}
        \cup {OracleReplied(t) : t \in SeqsUpTo(EngineLines, MaxReplyLines)}

(***************************************************************************)
(* src/src/move_engine.py : MoveEngine.explain_move, step by step          *)
(***************************************************************************)

NotSignificant(move_analysis) ==
    [kind |-> "not_significant",
     is_significant |-> FALSE,
     price_change_pct |-> move_analysis.price_metrics.price_change_pct]

NoWorld ==
    [stock |-> FailDay, market |-> FailDay, sector |-> FailDay,
     news |-> [count |-> 0, has_significant_news |-> FALSE],
     oracle |-> OracleFailed]

\* explain_move as one function of what the collaborators answer.
\* fetch_news_for_symbol raising (a null title reaches
\* _filter_and_deduplicate); explain_move has no handler for it.
NewsFailed == RaiseRec("AttributeError")

explain_move(w) ==
    LET move_analysis == analyze_move(w.stock, w.market)
    IN  IF move_analysis.kind = "raise" THEN move_analysis
        ELSE IF ~move_analysis.requires_explanation THEN NotSignificant(move_analysis)
        ELSE LET context_analysis ==
                     analyze_performance_context(w.stock, w.market, w.sector)
             IN  IF w.news = NewsFailed THEN NewsFailed
                 ELSE generate_explanation(move_analysis.price_metrics,
                                           move_analysis.volume_metrics,
                                           context_analysis, w.news, w.oracle)

EngineInit ==
    /\ pc = "start"
    /\ calls = <<>>
    /\ world = NoWorld
    /\ move = NoRec
    /\ context = NoRec
    /\ result = NoRec

EngineIdle ==
    /\ pc = "idle"
    /\ calls = <<>>
    /\ world = NoWorld
    /\ move = NoRec
    /\ context = NoRec
    /\ result = NoRec

\* Step 1 and the gate: analyze_move, then the early return.
StepAnalyzeMove ==
    /\ pc = "start"
    /\ \E sd \in StockDays, md \in MarketDays :
         LET move_analysis == analyze_move(sd, md)
         IN  /\ world' = [world EXCEPT !.stock = sd, !.market = md]
             /\ move' = move_analysis
             /\ calls' = calls \o <<"analyze_move", "get_market_context">>
             /\ IF move_analysis.kind = "raise"
                THEN result' = move_analysis /\ pc' = "done"
                ELSE IF ~move_analysis.requires_explanation
                THEN result' = NotSignificant(move_analysis) /\ pc' = "done"
                ELSE result' = result /\ pc' = "context"
    /\ UNCHANGED <<context, clsVars, batchVars, backendVars, callVars>>

\* Step 2: analyze_performance_context (same stock and market bars).
StepContext ==
    /\ pc = "context"
    /\ \E sec \in SectorDays :
         /\ world' = [world EXCEPT !.sector = sec]
         /\ context' = analyze_performance_context(world.stock, world.market, sec)
    /\ calls' = Append(calls, "analyze_performance_context")
    /\ pc' = "news"
    /\ UNCHANGED <<move, result, clsVars, batchVars, backendVars, callVars>>

\* Step 3: fetch_news_for_symbol and summarize_news.
StepNews ==
    /\ pc = "news"
    /\ \E n \in NewsSummaries \cup {NewsFailed} :
         /\ world' = [world EXCEPT !.news = n]
         /\ IF n = NewsFailed
            THEN result' = n /\ pc' = "done"
            ELSE result' = result /\ pc' = "explain"
    /\ calls' = Append(calls, "fetch_news")
    /\ UNCHANGED <<move, context, clsVars, batchVars, backendVars, callVars>>

\* A seeded fault: a failed oracle call is tried a second time.
StepGenerateRetrying ==
    /\ pc = "explain"
    /\ LET evidence == build_evidence_summary(move.price_metrics, move.volume_metrics,
                                            context, world.news)
       IN  IF evidence.kind = "raise"
           THEN /\ result' = evidence
                /\ UNCHANGED <<world, calls>>
           ELSE \E first, o \in EngineOracleOutcomes :
                  /\ world' = [world EXCEPT !.oracle = o]
                  /\ calls' = IF first.ok THEN Append(calls, "oracle")
                              ELSE calls \o <<"oracle", "oracle">>
                  /\ result' = generate_explanation(move.price_metrics, move.volume_metrics,
                                                   context, world.news,
                                                   IF first.ok THEN first ELSE o)
    /\ pc' = "done"
    /\ UNCHANGED <<move, context, clsVars, batchVars, backendVars, callVars>>

\* Step 4: generate_explanation; the oracle is called only when the evidence
\* summary was built.
StepGenerate ==
    /\ pc = "explain"
    /\ LET evidence == build_evidence_summary(move.price_metrics, move.volume_metrics,
                                            context, world.news)
       IN  IF evidence.kind = "raise"
           THEN /\ result' = evidence
                /\ UNCHANGED <<world, calls>>
           ELSE \E o \in EngineOracleOutcomes :
                  /\ world' = [world EXCEPT !.oracle = o]
                  /\ calls' = Append(calls, "oracle")
                  /\ result' = generate_explanation(move.price_metrics, move.volume_metrics,
                                                   context, world.news, o)
    /\ pc' = "done"
    /\ UNCHANGED <<move, context, clsVars, batchVars, backendVars, callVars>>

\* quick_check: analyze_move under try/except; the classification it
\* reports is that of get_market_context.
quick_check(stock_day, market_day) ==
    LET move_analysis == analyze_move(stock_day, market_day)
    IN  IF move_analysis.kind = "raise"
        THEN [kind |-> "quick_check_error", is_significant |-> FALSE]
        ELSE [kind |-> "quick_check",
              is_significant |-> move_analysis.requires_explanation,
              price_change_pct |-> move_analysis.price_metrics.price_change_pct,
              volume_spike |-> move_analysis.volume_metrics.volume_spike,
              classification |-> move_analysis.market_context.classification]

StepQuickCheck ==
    /\ pc = "start"
    /\ \E sd \in StockDays, md \in MarketDays :
         /\ world' = [world EXCEPT !.stock = sd, !.market = md]
         /\ result' = quick_check(sd, md)
    /\ calls' = calls \o <<"analyze_move", "get_market_context">>
    /\ pc' = "done"
    /\ UNCHANGED <<move, context, clsVars, batchVars, backendVars, callVars>>

ClsIdle == cls_in = <<>> /\ cls_out = None

CallIdle == args = NoRec /\ ret = NoRec

BatchIdle ==
    /\ b_symbols = <<>>
    /\ b_world = <<>>
    /\ b_idx = 0
    /\ b_results = <<>>
    /\ b_pc = "idle"

BackendIdle ==
    /\ be_pc = "idle"
    /\ be_market = NoRec
    /\ be_news = 0
    /\ be_oracle = OracleFailed
    /\ be_resp = NoRec
    /\ be_prev = NoRec

Init == EngineInit /\ ClsIdle /\ BatchIdle /\ BackendIdle /\ CallIdle

Next ==
    \/ StepAnalyzeMove
    \/ StepContext
    \/ StepNews
    \/ StepGenerate
    \/ StepQuickCheck

Spec == Init /\ [][Next]_vars

\* The steps compose to explain_move.
StepsAreExplainMove ==
    (pc = "done" /\ result.kind \notin {"quick_check", "quick_check_error"})
        => result = explain_move(world)

(***************************************************************************)
(* The classifier on its own: inputs drawn, then _classify_move applied    *)
(***************************************************************************)

MaxPctSteps == 8

\* Percentages in steps of 0.5%, and the values of the documented scenarios.
Pcts == {50 * k : k \in (-MaxPctSteps)..MaxPctSteps} \cup {30, 80, 460}

ClsInit ==
    /\ cls_in \in {<<s, m, x>> : s \in Pcts, m \in Pcts,
                                 x \in {NoNum} \cup {<<v>> : v \in Pcts}}
    /\ cls_out = None

Classify ==
    /\ cls_out = None
    /\ cls_out' = classify_move(cls_in[1], cls_in[2], cls_in[3])
    /\ UNCHANGED <<cls_in, engineVars, batchVars, backendVars, callVars>>

InitClassify == ClsInit /\ EngineIdle /\ BatchIdle /\ BackendIdle /\ CallIdle

NextClassify == Classify

SpecClassify == InitClassify /\ [][NextClassify]_vars

(***************************************************************************)
(* Properties of the single-instrument flow (specification Spec)           *)
(***************************************************************************)

InCalls(name) == \E i \in 1..Len(calls) : calls[i] = name

Classifications == {"market_driven", "sector_driven", "stock_specific", "mixed_influence"}

NoPrimaryDriverLine(text) ==
    \A i \in 1..Len(text) : ~StartsWith(text[i], PRIMARY_DRIVER)

\* C3 (as stated): when the oracle reply holds no PRIMARY DRIVER section, the
\* explanation returned is the fallback one: confidence exactly 0.4 and a
\* non-empty primary_driver.
C3_NoPrimaryDriverFallsBack ==
    (/\ pc = "done"
     /\ result.kind = "explanation"
     /\ world.oracle.ok /\ world.oracle.content
     /\ NoPrimaryDriverLine(world.oracle.text))
        => (result.confidence = 40 /\ result.primary_driver # <<>>)

\* C4 (as stated): when no sector series could be obtained for a move that
\* passed the gate, explain_move still returns an explanation and does not
\* raise.  (Moves whose volume record is complete, so that the missing sector
\* is the only thing out of the ordinary.)
C4_MissingSectorStillExplains ==
    (/\ pc = "done"
     /\ context.kind = "context_analysis"
     /\ context.sector = NoNum
     /\ move.volume_metrics.volume # NoNum)
        => result.kind = "explanation"

C8_ClassificationInDomain ==
    /\ (result.kind = "quick_check" => result.classification \in Classifications)
    /\ (result.kind = "explanation" => result.move_classification \in Classifications)
    /\ (context.kind = "context_analysis" => context.classification \in Classifications)

(***************************************************************************)
(* Properties of the classifier (specification SpecClassify)               *)
(***************************************************************************)

StrictSameSign(a, b) == (a > 0 /\ b > 0) \/ (a < 0 /\ b < 0)

SameSignZeroNonNegative(a, b) == (a >= 0 /\ b >= 0) \/ (a < 0 /\ b < 0)

SectorRule(stock_pct, market_pct, sector_pct) ==
    /\ sector_pct # NoNum
    /\ StrictSameSign(stock_pct, sector_pct[1])
    /\ Abs(stock_pct - sector_pct[1]) < Abs(stock_pct - market_pct)
    /\ Abs(stock_pct - sector_pct[1]) < 200

SUMMARY == "SUMMARY:"

MOVE_CLASSIFICATION == "MOVE CLASSIFICATION:"

CONFIDENCE_SCORE == "CONFIDENCE SCORE:"

UNCERTAINTY_NOTE == "UNCERTAINTY NOTE:"

\* The section a header line switches to; None for a line that starts with
\* no recognized header.
HeaderSection(line) ==
    IF StartsWith(line, SUMMARY) THEN "summary"
    ELSE IF StartsWith(line, PRIMARY_DRIVER) THEN "primary_driver"
    ELSE IF StartsWith(line, SUPPORTING_FACTORS) THEN "supporting_factors"
    ELSE IF StartsWith(line, MOVE_CLASSIFICATION) THEN "move_classification"
    ELSE IF StartsWith(line, CONFIDENCE_SCORE) THEN "confidence_score"
    ELSE IF StartsWith(line, UNCERTAINTY_NOTE) THEN "uncertainty_note"
    ELSE None

\* float(line): the lines Python reads as a number, with the value in
\* hundredths; any other line raises ValueError.
FloatLiterals == {"0.9", "0.1", "0.4", "1.5", "-0.2"}

FloatOf(token) ==
    CASE token = "0.9" -> 90
      [] token = "0.1" -> 10
      [] token = "0.4" -> 40
      [] token = "1.5" -> 150
      [] token = "-0.2" -> -20

ParsesAsFloat(line) == Len(line) = 1 /\ line[1] \in FloatLiterals

\* str.lower() on the tokens that matter to the parser.
Lower(line) ==
    [i \in 1..Len(line) |-> IF line[i] \in {"None", "NONE"} THEN "none" ELSE line[i]]

\* result[key] += line + " "
AddLine(text, line) == text \o line \o <<" ">>

\* str.strip() of an accumulated text: the trailing blanks dropped.
RECURSIVE Strip(_)
Strip(text) ==
    IF text # <<>> /\ text[Len(text)] = " " THEN Strip(SubSeq(text, 1, Len(text) - 1))
    ELSE text

\* A seeded fault: the parsed score stored without the clamp.
ParseResponseLineWithoutClamp(st, line) ==
    IF HeaderSection(line) # None
    THEN [st EXCEPT !.current_section = HeaderSection(line)]
    ELSE IF st.current_section = "summary" /\ line # <<>>
    THEN [st EXCEPT !.summary = AddLine(@, line)]
    ELSE IF st.current_section = "primary_driver" /\ line # <<>>
    THEN [st EXCEPT !.primary_driver = AddLine(@, line)]
    ELSE IF st.current_section = "supporting_factors" /\ StartsWith(line, BULLET)
    THEN [st EXCEPT !.supporting_factors = Append(@, Tail(line))]
    ELSE IF st.current_section = "move_classification" /\ line # <<>>
    THEN [st EXCEPT !.move_classification = line]
    ELSE IF st.current_section = "confidence_score" /\ line # <<>>
    THEN IF ParsesAsFloat(line)
         THEN [st EXCEPT !.confidence_score = FloatOf(line[1])]
         ELSE st
    ELSE IF st.current_section = "uncertainty_note" /\ line # <<>>
    THEN IF Lower(line) # <<"none">>
         THEN [st EXCEPT !.uncertainty_note = <<line>>]
         ELSE st
    ELSE st

\* One step of the loop of _parse_response: a header line switches the
\* section and is skipped; any other line goes to the active section.
ParseResponseLine(st, line) ==
    IF HeaderSection(line) # None
    THEN [st EXCEPT !.current_section = HeaderSection(line)]
    ELSE IF st.current_section = "summary" /\ line # <<>>
    THEN [st EXCEPT !.summary = AddLine(@, line)]
    ELSE IF st.current_section = "primary_driver" /\ line # <<>>
    THEN [st EXCEPT !.primary_driver = AddLine(@, line)]
    ELSE IF st.current_section = "supporting_factors" /\ StartsWith(line, BULLET)
    THEN [st EXCEPT !.supporting_factors = Append(@, Tail(line))]
    ELSE IF st.current_section = "move_classification" /\ line # <<>>
    THEN [st EXCEPT !.move_classification = line]
    ELSE IF st.current_section = "confidence_score" /\ line # <<>>
    THEN IF ParsesAsFloat(line)
         THEN [st EXCEPT !.confidence_score = Max2(0, Min2(100, FloatOf(line[1])))]
         ELSE st
    ELSE IF st.current_section = "uncertainty_note" /\ line # <<>>
    THEN IF Lower(line) # <<"none">>
         THEN [st EXCEPT !.uncertainty_note = <<line>>]
         ELSE st
    ELSE st

RECURSIVE ParseResponseLoop(_, _)
ParseResponseLoop(st, lines) ==
    IF lines = <<>> THEN st
    ELSE ParseResponseLoop(ParseResponseLine(st, Head(lines)), Tail(lines))

\* _parse_response.  uncertainty_note is <<>> for None, <<line>> otherwise.
\* A content of None makes ai_response.strip() raise; the except branch
\* returns the fixed structure.
parse_response(oracle) ==
    IF ~oracle.content
    THEN [summary |-> <<"Unable to parse structured response">>,
          primary_driver |-> <<"Unknown">>,
          supporting_factors |-> <<>>,
          move_classification |-> <<"UNKNOWN">>,
          confidence_score |-> 30,
          uncertainty_note |-> << <<"Response parsing failed">> >>]
    ELSE LET st == ParseResponseLoop(
                       [summary |-> <<>>, primary_driver |-> <<>>,
                        supporting_factors |-> <<>>, move_classification |-> <<>>,
                        confidence_score |-> 50, uncertainty_note |-> <<>>,
                        current_section |-> None],
                       oracle.text)
         IN  [summary |-> Strip(st.summary),
              primary_driver |-> Strip(st.primary_driver),
              supporting_factors |-> st.supporting_factors,
              move_classification |-> st.move_classification,
              confidence_score |-> st.confidence_score,
              uncertainty_note |-> st.uncertainty_note]

(***************************************************************************)
(* src/backend/main.py : explain_movement, step by step                    *)
(***************************************************************************)

MaxBackendReplyLines == 2

\* get_stock_data: the data, ValueError (no data for the date) or another
\* exception.
BackendMarketData ==
    {[kind |-> "market_data", status |-> "ok", price_change_percent |-> 250],
     [kind |-> "market_data", status |-> "ok", price_change_percent |-> -40],
     [kind |-> "market_data", status |-> "ValueError", price_change_percent |-> 0],
     [kind |-> "market_data", status |-> "Exception", price_change_percent |-> 0]}

MaxNewsItems == 1

BackendLines ==
    {<<PRIMARY_DRIVER>>, <<"foo">>, <<SUPPORTING_FACTORS>>, <<BULLET, "a">>,
     <<MOVE_CLASSIFICATION>>, <<"MARKET-DRIVEN">>, <<CONFIDENCE_SCORE>>,
     <<"0.9">>, <<"0.1">>, <<"1.5">>}

BackendOracleOutcomes ==
    {OracleFailed, OracleNoContent}
        \cup {OracleReplied(t) : t \in SeqsUpTo(BackendLines, MaxBackendReplyLines)}

HttpError(status) == [kind |-> "http_error", status |-> status]

\* The ExplainResponse built from the parsed explanation (step 6).
ExplainResponse(market_data, explanation) ==
    [kind |-> "response",
     price_change_percent |-> market_data.price_change_percent,
     primary_driver |-> explanation.primary_driver,
     supporting_factors |-> explanation.supporting_factors,
     move_classification |-> explanation.move_classification,
     confidence_score |-> explanation.confidence_score,
     uncertainty_note |-> explanation.uncertainty_note]

BackendInit ==
    /\ be_pc = "start"
    /\ be_market = NoRec
    /\ be_news = 0
    /\ be_oracle = OracleFailed
    /\ be_resp = NoRec
    /\ be_prev = NoRec

\* Step 1: get_stock_data; ValueError becomes 404, anything else 500.
BeGetStockData ==
    /\ be_pc = "start"
    /\ \E md \in BackendMarketData :
         /\ be_market' = md
         /\ IF md.status = "ok"
            THEN be_pc' = "news" /\ be_resp' = be_resp
            ELSE /\ be_pc' = "done"
                 /\ be_resp' = HttpError(IF md.status = "ValueError" THEN 404 ELSE 500)
    /\ UNCHANGED <<be_news, be_oracle, be_prev, engineVars, clsVars, batchVars, callVars>>

\* Steps 2 and 3: get_news_with_sentiment (an empty list on any failure) and
\* build_evidence.
BeGetNews ==
    /\ be_pc = "news"
    /\ \E n \in 0..MaxNewsItems : be_news' = n
    /\ be_pc' = "oracle"
    /\ UNCHANGED <<be_market, be_oracle, be_resp, be_prev, engineVars, clsVars, batchVars, callVars>>

\* Steps 4 to 6: generate_explanation re-raises what the oracle call raised,
\* and the handler turns it into a 500; otherwise the parsed reply fills the
\* response (the optional data of step 5 changes none of these fields).
BeGenerateExplanation ==
    /\ be_pc = "oracle"
    /\ \E o \in BackendOracleOutcomes :
         /\ be_oracle' = o
         /\ be_resp' = IF ~o.ok THEN HttpError(500)
                       ELSE ExplainResponse(be_market, parse_response(o))
    /\ be_pc' = "done"
    /\ UNCHANGED <<be_market, be_news, be_prev, engineVars, clsVars, batchVars, callVars>>

\* A second request for the same symbol and date while the providers return
\* the same data: the evidence is the same, the oracle answers afresh.
BeSameEvidenceAgain ==
    /\ be_pc = "done"
    /\ be_resp.kind = "response"
    /\ be_prev = NoRec
    /\ be_prev' = [kind |-> "earlier", oracle |-> be_oracle,
                   confidence_score |-> be_resp.confidence_score]
    /\ be_resp' = NoRec
    /\ be_pc' = "oracle"
    /\ UNCHANGED <<be_market, be_news, be_oracle, engineVars, clsVars, batchVars, callVars>>

InitBackend == BackendInit /\ EngineIdle /\ ClsIdle /\ BatchIdle /\ CallIdle

NextBackend ==
    \/ BeGetStockData
    \/ BeGetNews
    \/ BeGenerateExplanation
    \/ BeSameEvidenceAgain

SpecBackend == InitBackend /\ [][NextBackend]_vars

(***************************************************************************)
(* Properties of the explanation returned (both pipelines)                 *)
(***************************************************************************)

\* C1 (as stated): every explanation returned carries a confidence score in
\* [0.3, 0.95], on the parsed and on the fallback path, in the MoveEngine
\* result and in the backend response alike.
C1_ConfidenceInRange ==
    /\ result.kind = "explanation"
           => (30 <= result.confidence /\ result.confidence <= 95)
    /\ be_resp.kind = "response"
           => (30 <= be_resp.confidence_score /\ be_resp.confidence_score <= 95)

\* C2 (as stated): when the oracle call fails, the caller still receives an
\* explanation (the fallback one), never an error.
C2_OracleFailureFallsBack ==
    /\ (pc = "done" /\ InCalls("oracle") /\ ~world.oracle.ok)
           => result.kind = "explanation"
    /\ (be_pc = "done" /\ be_market.kind = "market_data" /\ be_market.status = "ok"
        /\ ~be_oracle.ok)
           => be_resp.kind = "response"

\* C9 (as stated): two evaluations on the same evidence, each with a reply
\* of the oracle, return the same confidence score whatever the replies say.
C9_ConfidenceIgnoresReply ==
    (/\ be_pc = "done"
     /\ be_resp.kind = "response"
     /\ be_prev.kind = "earlier"
     /\ be_oracle.content /\ be_prev.oracle.content)
        => be_resp.confidence_score = be_prev.confidence_score

(***************************************************************************)
(* src/src/move_engine.py : MoveEngine.batch_analyze                       *)
(***************************************************************************)

MaxBatchSymbols == 2

Symbols == {"AAA", "BBB"}

\* What the collaborators hold for one symbol: no bar, a quiet day or a +5%
\* day; a sector series or none; an oracle that fails or replies.
BatchWorlds ==
    {[stock |-> sd, market |-> Day(<<1000>>, 1003, <<100>>, 100), sector |-> sec,
      news |-> [count |-> 1, has_significant_news |-> FALSE], oracle |-> o] :
        sd \in {FailDay, Day(<<1000>>, 1000, <<100>>, 100), Day(<<1000>>, 1050, <<100>>, 100)},
        sec \in {FailDay, Day(<<1000>>, 1046, <<100>>, 100)},
        o \in {OracleFailed, OracleReplied(<< <<PRIMARY_DRIVER, "foo">> >>)}}

\* A Python dict as <<key, value>> pairs in insertion order.
DictHas(d, k) == \E i \in 1..Len(d) : d[i][1] = k

DictGet(d, k) == d[CHOOSE i \in 1..Len(d) : d[i][1] = k][2]

\* d[k] = v : a new key goes last, a known key keeps its place.
DictSet(d, k, v) ==
    IF DictHas(d, k)
    THEN [i \in 1..Len(d) |-> IF d[i][1] = k THEN <<k, v>> ELSE d[i]]
    ELSE Append(d, <<k, v>>)

ErrorEntry(symbol, raised) == [kind |-> "error", symbol |-> symbol, error |-> raised.exc]

\* A seeded fault: a failing symbol skipped without an entry.
batch_iteration_skipping(results, symbol, outcome) ==
    IF outcome.kind = "raise" THEN results
    ELSE DictSet(results, symbol, outcome)

\* One iteration of the loop of batch_analyze: the outcome of explain_move
\* stored, or the error entry when it raised.
batch_iteration(results, symbol, outcome) ==
    IF outcome.kind = "raise"
    THEN DictSet(results, symbol, ErrorEntry(symbol, outcome))
    ELSE DictSet(results, symbol, outcome)

BatchInit ==
    /\ b_symbols \in SeqsUpTo(Symbols, MaxBatchSymbols)
    /\ b_world \in [Symbols -> BatchWorlds]
    /\ b_idx = 0
    /\ b_results = <<>>
    /\ b_pc = "loop"

BatchStep ==
    /\ b_pc = "loop"
    /\ b_idx < Len(b_symbols)
    /\ LET symbol == b_symbols[b_idx + 1]
       IN  b_results' = batch_iteration(b_results, symbol, explain_move(b_world[symbol]))
    /\ b_idx' = b_idx + 1
    /\ UNCHANGED <<b_symbols, b_world, b_pc, engineVars, clsVars, backendVars, callVars>>

BatchReturn ==
    /\ b_pc = "loop"
    /\ b_idx = Len(b_symbols)
    /\ b_pc' = "returned"
    /\ UNCHANGED <<b_symbols, b_world, b_idx, b_results, engineVars, clsVars, backendVars, callVars>>

InitBatch == BatchInit /\ EngineIdle /\ ClsIdle /\ BackendIdle /\ CallIdle

NextBatch == BatchStep \/ BatchReturn

SpecBatch == InitBatch /\ [][NextBatch]_vars

\* C10: after batch_analyze, every symbol of the list has an entry: the error
\* entry of that symbol when its evaluation raised, and otherwise exactly what
\* explain_move returns for it, whatever happened to the other symbols.
C10_BatchIsolatesFailures ==
    b_pc = "returned" =>
        \A i \in 1..Len(b_symbols) :
            LET symbol == b_symbols[i]
                outcome == explain_move(b_world[symbol])
            IN  /\ DictHas(b_results, symbol)
                /\ DictGet(b_results, symbol) =
                       IF outcome.kind = "raise"
                       THEN [kind |-> "error", symbol |-> symbol, error |-> outcome.exc]
                       ELSE outcome

\* C10 witness: the first symbol failed and the second one, evaluated after
\* it, carries its explanation.
C10_Witness ==
    /\ b_pc = "returned"
    /\ Len(b_symbols) = 2
    /\ DictHas(b_results, b_symbols[1])
    /\ DictGet(b_results, b_symbols[1]).kind = "error"
    /\ DictHas(b_results, b_symbols[2])
    /\ DictGet(b_results, b_symbols[2]).kind = "explanation"

\* C11: the batch response holds one result per input symbol, in input order,
\* the i-th result belonging to the i-th input symbol, also for a list that
\* names a symbol more than once.
C11_OneResultPerInputInOrder ==
    b_pc = "returned" =>
        /\ Len(b_results) = Len(b_symbols)
        /\ \A i \in 1..Len(b_symbols) : b_results[i][1] = b_symbols[i]

(***************************************************************************)
(* src/src/move_engine.py : MoveEngine.get_top_movers                      *)
(***************************************************************************)

MaxMoverSymbols == 3

MaxTopN == 2

MoverSymbols == {"AAA", "BBB", "CCC"}

\* What the collaborators hold for one symbol: no bar, +0.8% (quiet), +2%,
\* -2.5%, +5%, and +5% for a symbol whose sector series is missing.
MoverWorlds ==
    {[stock |-> sd, market |-> Day(<<1000>>, 1003, <<100>>, 100),
      sector |-> Day(<<1000>>, 1046, <<100>>, 100),
      news |-> [count |-> 1, has_significant_news |-> FALSE],
      oracle |-> OracleReplied(<< <<PRIMARY_DRIVER, "foo">> >>)] :
        sd \in {FailDay} \cup {Day(<<1000>>, c, <<100, 100>>, 100) : c \in {1008, 1020, 975, 1050}}}
    \cup
    {[stock |-> Day(<<1000>>, 1050, <<100, 100>>, 100),
      market |-> Day(<<1000>>, 1003, <<100>>, 100), sector |-> FailDay,
      news |-> [count |-> 1, has_significant_news |-> FALSE],
      oracle |-> OracleFailed]}

\* The first loop of get_top_movers: the significant symbols with the
\* absolute value of their change, in input order.
RECURSIVE CollectMovers(_, _)
CollectMovers(symbols, w) ==
    IF symbols = <<>> THEN <<>>
    ELSE LET symbol == Head(symbols)
             check == quick_check(w[symbol].stock, w[symbol].market)
             rest == CollectMovers(Tail(symbols), w)
         IN  IF check.is_significant
             THEN <<[symbol |-> symbol, change_pct |-> Abs(check.price_change_pct)]>> \o rest
             ELSE rest

\* list.sort(key = change_pct, reverse = True): stable, so movers of equal
\* change keep their order.
RECURSIVE InsertMover(_, _)
InsertMover(sorted, mover) ==
    IF sorted = <<>> THEN <<mover>>
    ELSE IF Head(sorted).change_pct >= mover.change_pct
    THEN <<Head(sorted)>> \o InsertMover(Tail(sorted), mover)
    ELSE <<mover>> \o sorted

RECURSIVE SortMovers(_)
SortMovers(movers) ==
    IF movers = <<>> THEN <<>>
    ELSE InsertMover(SortMovers(SubSeq(movers, 1, Len(movers) - 1)), movers[Len(movers)])

\* s[:n] : the first n elements, and for a negative n all but the last -n.
SlicePrefix(s, n) ==
    IF n >= 0 THEN SubSeq(s, 1, Min2(n, Len(s)))
    ELSE SubSeq(s, 1, Max2(Len(s) + n, 0))

\* The second loop: the explanation of each mover, a raising one skipped.
RECURSIVE ExplainMovers(_, _)
ExplainMovers(movers, w) ==
    IF movers = <<>> THEN <<>>
    ELSE LET explanation == explain_move(w[Head(movers).symbol])
             rest == ExplainMovers(Tail(movers), w)
         IN  IF explanation.kind = "raise" THEN rest
             ELSE <<[symbol |-> Head(movers).symbol, explanation |-> explanation]>> \o rest

get_top_movers(symbols, w, top_n) ==
    ExplainMovers(SlicePrefix(SortMovers(CollectMovers(symbols, w)), top_n), w)

TopMoversInit ==
    /\ args \in {[kind |-> "get_top_movers", symbols |-> s, world |-> w, top_n |-> n] :
                    s \in SeqsUpTo(MoverSymbols, MaxMoverSymbols),
                    w \in [MoverSymbols -> MoverWorlds],
                    n \in (-1)..MaxTopN}
    /\ ret = NoRec

TopMovers ==
    /\ args.kind = "get_top_movers"
    /\ ret = NoRec
    /\ ret' = [kind |-> "returned",
               value |-> get_top_movers(args.symbols, args.world, args.top_n)]
    /\ UNCHANGED <<args, engineVars, clsVars, batchVars, backendVars>>

InitTopMovers == TopMoversInit /\ EngineIdle /\ ClsIdle /\ BatchIdle /\ BackendIdle

NextTopMovers == TopMovers

SpecTopMovers == InitTopMovers /\ [][NextTopMovers]_vars

\* The ranking of the claim: the significant symbols by |price_change_pct|
\* descending.
IsRanking(r, symbols, w) ==
    /\ r = SortMovers(CollectMovers(symbols, w))
    /\ \A i \in 1..(Len(r) - 1) : r[i].change_pct >= r[i + 1].change_pct

\* C12: get_top_movers returns at most N explanations, those of the first N
\* symbols of the ranking by |price_change_pct| descending, in ranking
\* order, for every N passed; a symbol whose full flow fails is left out
\* without stopping the others.
C12_TopNOfRanking ==
    ret.kind = "returned" /\ args.kind = "get_top_movers" =>
        LET r == SortMovers(CollectMovers(args.symbols, args.world))
            n == Max2(args.top_n, 0)
        IN  /\ IsRanking(r, args.symbols, args.world)
            /\ Len(ret.value) <= n
            /\ ret.value = ExplainMovers(SubSeq(r, 1, Min2(n, Len(r))), args.world)

(***************************************************************************)
(* src/api/main.py : batch_analyze, top_movers                             *)
(* src/backend/main.py : get_historical_data                               *)
(* The request handlers that carry a size cap                              *)
(***************************************************************************)

MaxCapMargin == 5

\* "Maximum 20 symbols allowed per batch request"
batch_symbols_cap == 20

\* "Maximum 50 symbols allowed for top movers analysis"
top_movers_symbols_cap == 50

\* "Maximum 365 days allowed"
historical_days_cap == 365

HTTPException(status) == [kind |-> "raise", exc |-> "HTTPException", status |-> status]

Returned200 == [kind |-> "return", exc |-> "", status |-> 200]

\* A try body of src/api/main.py: the date is validated, the cap is tested,
\* then the engine is called.
ApiBody(date_ok, size, cap) ==
    IF ~date_ok THEN [kind |-> "raise", exc |-> "ValueError", status |-> 0]
    ELSE IF size > cap THEN HTTPException(400)
    ELSE Returned200

\* except ValueError -> 400; except Exception -> 500.  HTTPException is a
\* subclass of Exception, so the second clause also takes the handler's own
\* HTTPException.
ApiExcept(outcome) ==
    IF outcome.kind = "return" THEN outcome
    ELSE IF outcome.exc = "ValueError" THEN HTTPException(400)
    ELSE HTTPException(500)

\* The try body of get_historical_data of the backend.
HistoricalBody(days, cap, service_ok) ==
    IF days > cap THEN HTTPException(400)
    ELSE IF ~service_ok THEN [kind |-> "raise", exc |-> "Exception", status |-> 0]
    ELSE Returned200

\* except Exception -> 500
HistoricalExcept(outcome) ==
    IF outcome.kind = "return" THEN outcome ELSE HTTPException(500)

CapOf(handler) ==
    IF handler = "batch_analyze" THEN batch_symbols_cap
    ELSE IF handler = "top_movers" THEN top_movers_symbols_cap
    ELSE historical_days_cap

\* What the request handler answers, and whether the engine or the data
\* service was called.
HandleCapped(a) ==
    LET cap == CapOf(a.handler)
        body == IF a.handler = "get_historical_data"
                THEN HistoricalBody(a.size, cap, a.service_ok)
                ELSE ApiBody(a.date_ok, a.size, cap)
        out == IF a.handler = "get_historical_data"
               THEN HistoricalExcept(body) ELSE ApiExcept(body)
        called == IF a.handler = "get_historical_data"
                  THEN a.size <= cap
                  ELSE a.date_ok /\ a.size <= cap
    IN  [kind |-> "response", status |-> out.status, work_started |-> called]

CappedInit ==
    /\ args \in {[kind |-> "capped_request", handler |-> h, size |-> CapOf(h) + d,
                  date_ok |-> dk, service_ok |-> sk] :
                    h \in {"batch_analyze", "top_movers", "get_historical_data"},
                    d \in (-MaxCapMargin)..MaxCapMargin,
                    dk \in BOOLEAN, sk \in BOOLEAN}
    /\ args.handler = "get_historical_data" => args.date_ok
    /\ args.handler # "get_historical_data" => args.service_ok
    /\ ret = NoRec

CappedRequest ==
    /\ args.kind = "capped_request"
    /\ ret = NoRec
    /\ ret' = HandleCapped(args)
    /\ UNCHANGED <<args, engineVars, clsVars, batchVars, backendVars>>

InitCapped == CappedInit /\ EngineIdle /\ ClsIdle /\ BatchIdle /\ BackendIdle

NextCapped == CappedRequest

SpecCapped == InitCapped /\ [][NextCapped]_vars

\* C13: a request over its size cap, otherwise well formed, is rejected
\* before any work starts and the caller receives status 400.
C13_OverCapIs400 ==
    (/\ ret.kind = "response"
     /\ args.kind = "capped_request"
     /\ args.date_ok
     /\ args.size > CapOf(args.handler))
        => ret.status = 400 /\ ~ret.work_started

(***************************************************************************)
(* The reply format the prompts ask for, echoed with canned content, and    *)
(* parsed back (src/backend/services/ai_engine.py, src/src/ai_engine.py)    *)
(***************************************************************************)

MaxCannedLines == 2

\* One section of the reply: its label, then the content on the label's own
\* line (inline) or on the lines after it.
EchoSection(label, content, inline) ==
    IF inline /\ content # <<>>
    THEN << <<label>> \o Head(content) >> \o Tail(content)
    ELSE << <<label>> >> \o content

\* The reply of a stub oracle that echoes the five labels with the canned
\* content, in the order of the REQUIRED OUTPUT FORMAT.
EchoReply(canned, inline) ==
    EchoSection(PRIMARY_DRIVER, canned.primary_driver, inline)
        \o << <<SUPPORTING_FACTORS>> >>
        \o [i \in 1..Len(canned.supporting_factors) |->
                <<BULLET>> \o canned.supporting_factors[i]]
        \o EchoSection(MOVE_CLASSIFICATION, <<canned.move_classification>>, inline)
        \o EchoSection(CONFIDENCE_SCORE, << <<canned.confidence_score>> >>, inline)
        \o EchoSection(UNCERTAINTY_NOTE, canned.uncertainty_note, inline)

CannedContents ==
    {[primary_driver |-> p, supporting_factors |-> f, move_classification |-> c,
      confidence_score |-> s, uncertainty_note |-> u] :
        p \in SeqsUpTo({<<"foo">>, <<"bar">>}, MaxCannedLines) \ {<<>>},
        f \in SeqsUpTo({<<"a">>, <<"b">>}, 2),
        c \in {<<"MARKET-DRIVEN">>, <<"MIXED">>},
        s \in {"0.9", "0.4"},
        u \in SeqsUpTo({<<"caveat">>}, MaxCannedLines) \ {<<>>}}

RoundTripInit ==
    /\ args \in {[kind |-> "round_trip", canned |-> c, inline |-> i] :
                    c \in CannedContents, i \in BOOLEAN}
    /\ ret = NoRec

\* Both parsers applied to the echoed reply.
RoundTrip ==
    /\ args.kind = "round_trip"
    /\ ret = NoRec
    /\ LET text == EchoReply(args.canned, args.inline)
       IN  ret' = [kind |-> "parsed",
                   backend |-> parse_response(OracleReplied(text)),
                   engine |-> parse_explanation(text)]
    /\ UNCHANGED <<args, engineVars, clsVars, batchVars, backendVars>>

InitRoundTrip == RoundTripInit /\ EngineIdle /\ ClsIdle /\ BatchIdle /\ BackendIdle

NextRoundTrip == RoundTrip

SpecRoundTrip == InitRoundTrip /\ [][NextRoundTrip]_vars

\* C14: parsing the echoed reply yields the canned primary driver,
\* supporting factors, classification, confidence and uncertainty note,
\* whether the content stands on the label's line or below it, on one line
\* or several (several lines read as joined by single blanks).
C14_RoundTrip ==
    ret.kind = "parsed" /\ args.kind = "round_trip" =>
        /\ ret.backend.primary_driver = JoinLines(args.canned.primary_driver)
        /\ ret.backend.supporting_factors = args.canned.supporting_factors
        /\ ret.backend.move_classification = args.canned.move_classification
        /\ ret.backend.confidence_score = FloatOf(args.canned.confidence_score)
        /\ ret.backend.uncertainty_note = <<JoinLines(args.canned.uncertainty_note)>>
        /\ ret.engine.primary_driver = JoinLines(args.canned.primary_driver)
        /\ ret.engine.supporting_factors = args.canned.supporting_factors

(***************************************************************************)
(* Properties of the volume metrics, the confidence score and the fallback  *)
(* explanation of the src/src engine                                        *)
(***************************************************************************)

\* The trailing average volume is 0, or no bar precedes the target date.
NoUsableAverage(day) ==
    \/ LastN(day.history, lookback_days) = <<>>
    \/ SumSeq(LastN(day.history, lookback_days)) = 0

\* C15: with a trailing average volume of 0 or no bar before the target
\* date, volume_ratio is 1.0, volume_spike is false, and the record carries
\* the volume field too, so that building the evidence never fails on it.
C15_VolumeGuardRecordComplete ==
    (move.kind = "move_analysis" /\ NoUsableAverage(world.stock)) =>
        /\ move.volume_metrics.volume_ratio = 100
        /\ ~move.volume_metrics.volume_spike
        /\ move.volume_metrics.volume # NoNum
        /\ ~(result.kind = "raise" /\ result.exc = "KeyError")

(***************************************************************************)
(* Python strings                                                          *)
(***************************************************************************)

\* A string that is lower-cased and searched is a sequence of characters,
\* so that str.lower and the substring test "a in b" are computed as Python
\* does.
UpperLetters ==
    <<"A", "B", "C", "D", "E", "F", "G", "H", "I", "J", "K", "L", "M", "N", "O", "P", "Q", "R", "S", "T", "U", "V", "W", "X", "Y", "Z">>

LowerLetters ==
    <<"a", "b", "c", "d", "e", "f", "g", "h", "i", "j", "k", "l", "m", "n", "o", "p", "q", "r", "s", "t", "u", "v", "w", "x", "y", "z">>

lower_char(c) ==
    IF \E i \in 1..Len(UpperLetters) : UpperLetters[i] = c
    THEN LowerLetters[CHOOSE i \in 1..Len(UpperLetters) : UpperLetters[i] = c]
    ELSE c

str_lower(s) == [i \in 1..Len(s) |-> lower_char(s[i])]

\* Python's "needle in haystack" for strings.
str_contains(needle, haystack) ==
    \E start \in 0..(Len(haystack) - Len(needle)) :
        \A i \in 1..Len(needle) : haystack[start + i] = needle[i]

(***************************************************************************)
(* src/src/news_data.py : NewsDataFetcher                                  *)
(* src/backend/services/news_service.py : NewsService.get_news             *)
(***************************************************************************)

MaxArticles == 3

Titles == {"Apple beats earnings", "APPLE BEATS EARNINGS", "apple beats earnings",
           "Fed holds rates"}

\* str.lower() of a title.
LowerTitle(title) ==
    CASE title \in {"Apple beats earnings", "APPLE BEATS EARNINGS", "apple beats earnings"}
             -> "apple beats earnings"
      [] title = "Fed holds rates" -> "fed holds rates"
      [] OTHER -> title

Sources == {<<"R", "e", "u", "t", "e", "r", "s">>,
            <<"S", "o", "m", "e", " ", "B", "l", "o", "g">>}

Articles == {[title |-> t, source |-> s] : t \in Titles, s \in Sources}

\* The loop of _filter_and_deduplicate: an article whose lower-cased title
\* was seen is skipped.  (The date range is not applied by the code.)
RECURSIVE FilterAndDeduplicateLoop(_, _, _)
FilterAndDeduplicateLoop(articles, seen_titles, filtered) ==
    IF articles = <<>> THEN filtered
    ELSE LET title_lower == LowerTitle(Head(articles).title)
         IN  IF title_lower \in seen_titles
             THEN FilterAndDeduplicateLoop(Tail(articles), seen_titles, filtered)
             ELSE FilterAndDeduplicateLoop(Tail(articles),
                                           seen_titles \cup {title_lower},
                                           Append(filtered, Head(articles)))

filter_and_deduplicate(articles) == FilterAndDeduplicateLoop(articles, {}, <<>>)

\* "return articles[:15]"
news_limit == 15

\* fetch_news_for_symbol on the articles the providers returned.
fetch_news_for_symbol(articles) ==
    LET filtered == filter_and_deduplicate(articles)
    IN  SubSeq(filtered, 1, Min2(news_limit, Len(filtered)))

\* SOURCE_CREDIBILITY in insertion order, scores in hundredths.
SOURCE_CREDIBILITY ==
    <<[known_source |-> <<"R", "e", "u", "t", "e", "r", "s">>, score |-> 95],
      [known_source |-> <<"B", "l", "o", "o", "m", "b", "e", "r", "g">>, score |-> 95],
      [known_source |-> <<"T", "h", "e", " ", "W", "a", "l", "l", " ", "S", "t", "r", "e", "e", "t", " ", "J", "o", "u", "r", "n", "a", "l">>, score |-> 93],
      [known_source |-> <<"F", "i", "n", "a", "n", "c", "i", "a", "l", " ", "T", "i", "m", "e", "s">>, score |-> 93],
      [known_source |-> <<"C", "N", "B", "C">>, score |-> 85],
      [known_source |-> <<"M", "a", "r", "k", "e", "t", "W", "a", "t", "c", "h">>, score |-> 82],
      [known_source |-> <<"B", "a", "r", "r", "o", "n", "'", "s">>, score |-> 85],
      [known_source |-> <<"T", "h", "e", " ", "N", "e", "w", " ", "Y", "o", "r", "k", " ", "T", "i", "m", "e", "s">>, score |-> 88],
      [known_source |-> <<"A", "s", "s", "o", "c", "i", "a", "t", "e", "d", " ", "P", "r", "e", "s", "s">>, score |-> 92],
      [known_source |-> <<"Y", "a", "h", "o", "o", " ", "F", "i", "n", "a", "n", "c", "e">>, score |-> 75],
      [known_source |-> <<"S", "e", "e", "k", "i", "n", "g", " ", "A", "l", "p", "h", "a">>, score |-> 70],
      [known_source |-> <<"I", "n", "v", "e", "s", "t", "o", "r", "'", "s", " ", "B", "u", "s", "i", "n", "e", "s", "s", " ", "D", "a", "i", "l", "y">>, score |-> 78],
      [known_source |-> <<"F", "o", "r", "b", "e", "s">>, score |-> 80]>>

\* Exact match, then the first key contained in the name ignoring case,
\* then the default 0.65.
get_source_credibility(source_name) ==
    LET keys == 1..Len(SOURCE_CREDIBILITY)
        exact == {i \in keys : SOURCE_CREDIBILITY[i].known_source = source_name}
        partial == {i \in keys : str_contains(str_lower(SOURCE_CREDIBILITY[i].known_source),
                                              str_lower(source_name))}
        first(S) == CHOOSE i \in S : \A j \in S : i <= j
    IN  IF exact # {} THEN SOURCE_CREDIBILITY[first(exact)].score
        ELSE IF partial # {} THEN SOURCE_CREDIBILITY[first(partial)].score
        ELSE 65

\* get_news: max_articles = 5
max_articles == 5

\* news_items.sort(key = credibility_score, reverse = True): stable.
RECURSIVE InsertByCredibility(_, _)
InsertByCredibility(sorted, item) ==
    IF sorted = <<>> THEN <<item>>
    ELSE IF Head(sorted).credibility_score >= item.credibility_score
    THEN <<Head(sorted)>> \o InsertByCredibility(Tail(sorted), item)
    ELSE <<item>> \o sorted

RECURSIVE SortByCredibility(_)
SortByCredibility(items) ==
    IF items = <<>> THEN <<>>
    ELSE InsertByCredibility(SortByCredibility(SubSeq(items, 1, Len(items) - 1)),
                             items[Len(items)])

\* The loop of get_news: every article formatted with its credibility.
FormatNewsItems(articles) ==
    [i \in 1..Len(articles) |->
        [title |-> articles[i].title, source |-> articles[i].source,
         credibility_score |-> get_source_credibility(articles[i].source)]]

\* get_news with the sort left out.
get_news_without_sort(articles, limit) ==
    LET news_items == FormatNewsItems(SubSeq(articles, 1, Min2(2 * limit, Len(articles))))
    IN  SubSeq(news_items, 1, Min2(limit, Len(news_items)))

\* get_news on the articles NewsAPI returned, for a positive limit: the
\* first 2 * limit formatted, sorted by credibility, cut to limit.
get_news_limited(articles, limit) ==
    LET news_items == SortByCredibility(
            FormatNewsItems(SubSeq(articles, 1, Min2(2 * limit, Len(articles)))))
    IN  SubSeq(news_items, 1, Min2(limit, Len(news_items)))

get_news(articles) == get_news_limited(articles, max_articles)

NewsInit ==
    /\ args \in {[kind |-> "news", articles |-> a] : a \in SeqsUpTo(Articles, MaxArticles)}
    /\ ret = NoRec

\* Both aggregators applied to the same provider answer.
FetchNews ==
    /\ args.kind = "news"
    /\ ret = NoRec
    /\ ret' = [kind |-> "news_lists",
               engine |-> fetch_news_for_symbol(args.articles),
               backend |-> get_news(args.articles)]
    /\ UNCHANGED <<args, engineVars, clsVars, batchVars, backendVars>>

InitNews == NewsInit /\ EngineIdle /\ ClsIdle /\ BatchIdle /\ BackendIdle

NextNews == FetchNews

SpecNews == InitNews /\ [][NextNews]_vars

\* The articles of a list at the positions idx, in list order.
RECURSIVE AtPositions(_, _, _)
AtPositions(list, idx, i) ==
    IF i > Len(list) THEN <<>>
    ELSE (IF i \in idx THEN <<list[i]>> ELSE <<>>) \o AtPositions(list, idx, i + 1)

\* The positions of the first article of each group of titles equal
\* ignoring case.
FirstOccurrences(list) ==
    {i \in 1..Len(list) :
        \A j \in 1..(i - 1) : LowerTitle(list[j].title) # LowerTitle(list[i].title)}

NoTitleTwice(list) ==
    \A i, j \in 1..Len(list) :
        i # j => LowerTitle(list[i].title) # LowerTitle(list[j].title)

\* C16: deduplication keeps exactly the first article of each group of
\* titles equal ignoring case, in input order, and no list handed on by
\* either aggregator holds two titles equal ignoring case.
C16_DedupFirstOccurrence ==
    ret.kind = "news_lists" =>
        /\ ret.engine = AtPositions(args.articles, FirstOccurrences(args.articles), 1)
        /\ NoTitleTwice(ret.engine)
        /\ NoTitleTwice(ret.backend)

(***************************************************************************)
(* src/backend/services/market_data.py : MarketDataService                 *)
(* get_historical_data, get_technical_indicators, _calculate_rsi           *)
(* Prices are in cents, RSI in hundredths.                                 *)
(***************************************************************************)

MaxBars == 52

\* "period: int = 14"
rsi_period == 14

\* Daily closes up to the target date, oldest first: flat, rising, falling
\* or alternating, with the last close moved by bump.  _fetch_yahoo_data
\* drops every bar without a close, so each bar has one.
Shapes == {"flat", "up", "down", "zigzag"}

ClosesOf(len, shape, bump) ==
    [i \in 1..len |->
        (CASE shape = "flat" -> 10000
           [] shape = "up" -> 10000 + 7 * i
           [] shape = "down" -> 20000 - 7 * i
           [] shape = "zigzag" -> 10000 + 5 * (i % 2))
        + (IF i = len THEN bump ELSE 0)]

\* d if d > 0 else 0, summed over the deltas of prices.
RECURSIVE SumGains(_)
SumGains(prices) ==
    IF Len(prices) < 2 THEN 0
    ELSE Max2(prices[2] - prices[1], 0) + SumGains(Tail(prices))

\* -d if d < 0 else 0, summed over the deltas of prices.
RECURSIVE SumLosses(_)
SumLosses(prices) ==
    IF Len(prices) < 2 THEN 0
    ELSE Max2(prices[1] - prices[2], 0) + SumLosses(Tail(prices))

\* _calculate_rsi: some = FALSE for None; else rsi * 100 = num / den,
\* kept unrounded.  100 - 100 / (1 + gain / loss) = 100 * gain / (gain + loss).
calculate_rsi(prices) ==
    IF Len(prices) < rsi_period + 1 THEN [some |-> FALSE, num |-> 0, den |-> 1]
    ELSE LET window == LastN(prices, rsi_period + 1)
             gain == SumGains(window)
             loss == SumLosses(window)
         IN  IF loss = 0 THEN [some |-> TRUE, num |-> 10000, den |-> 1]
             ELSE [some |-> TRUE, num |-> 10000 * gain, den |-> gain + loss]

\* indicators["rsi"] = round(rsi, 2) if rsi else None : None (<<>>) for a
\* missing RSI and for an RSI of 0.0.
RsiEntry(rsi) ==
    IF rsi.some /\ rsi.num # 0 THEN <<RoundHalfEven(rsi.num, rsi.den)>> ELSE NoNum

\* A seeded fault: the average taken over the closes at hand when fewer
\* than n exist.
MovingAverageOverShorter(closes, n) ==
    IF closes = <<>> THEN NoNum
    ELSE LET w == LastN(closes, n) IN <<RoundHalfEven(SumSeq(w), Len(w))>>

\* round(sum(closes[-n:]) / n, 2) when len(closes) >= n, else no value.
MovingAverage(closes, n) ==
    IF Len(closes) >= n THEN <<RoundHalfEven(SumSeq(LastN(closes, n)), n)>>
    ELSE NoNum

\* get_technical_indicators with the target date on the last bar.  has_rsi
\* tells whether the "rsi" key is set.
get_technical_indicators(rows) ==
    IF rows = <<>> THEN [kind |-> "empty"]
    ELSE LET closes == SelectSeq(rows, LAMBDA c : c # 0)
         IN  [kind |-> "indicators",
              ma_20 |-> MovingAverage(closes, 20),
              ma_50 |-> MovingAverage(closes, 50),
              has_rsi |-> Len(closes) >= rsi_period + 1,
              rsi |-> IF Len(closes) >= rsi_period + 1
                      THEN RsiEntry(calculate_rsi(LastN(closes, rsi_period + 1)))
                      ELSE NoNum]

\* get_historical_data: for bar i (from 1) the averages over
\* closes[max(0, i-n) : i], set when i >= n and the window holds n closes.
\* The bars are consecutive days, date i being the i-th; the answer keeps
\* the bars of the last days_back days and the target day.
get_historical_data(rows, days_back) ==
    LastN([i \in 1..Len(rows) |->
              [date |-> i,
               close |-> rows[i],
               ma_20 |-> MovingAverage(SubSeq(rows, 1, i), 20),
               ma_50 |-> MovingAverage(SubSeq(rows, 1, i), 50)]],
          days_back + 1)

IndicatorsInit ==
    /\ args \in {[kind |-> "indicators", closes |-> ClosesOf(len, shape, bump),
                  days_back |-> d] :
                    len \in 1..MaxBars, shape \in Shapes, bump \in {0, 3},
                    d \in {5, 30}}
    /\ ret = NoRec

Indicators ==
    /\ args.kind = "indicators"
    /\ ret = NoRec
    /\ ret' = [kind |-> "technical",
               indicators |-> get_technical_indicators(args.closes),
               historical |-> get_historical_data(args.closes, args.days_back)]
    /\ UNCHANGED <<args, engineVars, clsVars, batchVars, backendVars>>

InitIndicators == IndicatorsInit /\ EngineIdle /\ ClsIdle /\ BatchIdle /\ BackendIdle

NextIndicators == Indicators

SpecIndicators == InitIndicators /\ [][NextIndicators]_vars

\* C17: an RSI is reported exactly when at least period + 1 closes exist;
\* it lies in [0, 100], is 100 with no loss in the window, and is 0 (not
\* absent) with losses and no gain in the window.
C17_RsiReported ==
    ret.kind = "technical" =>
        LET closes == args.closes
            ind == ret.indicators
            window == LastN(closes, rsi_period + 1)
        IN  /\ (ind.rsi # NoNum) <=> (Len(closes) >= rsi_period + 1)
            /\ ind.rsi # NoNum => ind.rsi[1] >= 0 /\ ind.rsi[1] <= 10000
            /\ (Len(closes) >= rsi_period + 1 /\ SumLosses(window) = 0)
                   => ind.rsi = <<10000>>
            /\ (Len(closes) >= rsi_period + 1 /\ SumGains(window) = 0
                    /\ SumLosses(window) > 0)
                   => ind.rsi = <<0>>

\* The closes of the n bars up to and including bar date, summed.
SumLastCloses(closes, date, n) == SumSeq(SubSeq(closes, date - n + 1, date))

\* value is the mean of the n closes up to bar date, rounded to a cent.
IsRoundedMean(value, closes, date, n) ==
    2 * Abs(value * n - SumLastCloses(closes, date, n)) <= n

\* value is that mean exactly.
IsExactMean(value, closes, date, n) ==
    value * n = SumLastCloses(closes, date, n)

MaAgrees(entry, closes, date, n, Means(_, _, _, _)) ==
    /\ (entry # NoNum) <=> (date >= n)
    /\ entry # NoNum => Means(entry[1], closes, date, n)

MovingAveragesAgree(Means(_, _, _, _)) ==
    ret.kind = "technical" =>
        /\ \A k \in 1..Len(ret.historical) :
               LET p == ret.historical[k]
               IN  /\ MaAgrees(p.ma_20, args.closes, p.date, 20, Means)
                   /\ MaAgrees(p.ma_50, args.closes, p.date, 50, Means)
        /\ ret.indicators.kind = "indicators" =>
               /\ MaAgrees(ret.indicators.ma_20, args.closes, Len(args.closes), 20, Means)
               /\ MaAgrees(ret.indicators.ma_50, args.closes, Len(args.closes), 50, Means)

\* C18 as stated: an n-day moving average (n = 20, 50) is reported for a bar
\* exactly when n closes up to and including it exist, and then equals the
\* arithmetic mean of those n closes.
C18_MovingAverageExactMean == MovingAveragesAgree(IsExactMean)

\* C18 as amended: an n-day moving average is reported for a bar exactly
\* when n closes up to and including it exist, and is then the arithmetic
\* mean of exactly those n closes rounded to two decimal places; with fewer
\* closes it is absent.
C18_MovingAverageRoundedMean == MovingAveragesAgree(IsRoundedMean)

\* C18 witness: 50 or more bars, the 50-day average of the target day
\* reported with a mean that is no whole number of cents, and the answer
\* also holding a bar too early for a 50-day average.
C18_Witness ==
    /\ ret.kind = "technical"
    /\ Len(args.closes) >= 50
    /\ ret.indicators.ma_50 # NoNum
    /\ SumLastCloses(args.closes, Len(args.closes), 50) % 50 # 0
    /\ \E k \in 1..Len(ret.historical) :
           ret.historical[k].ma_50 = NoNum /\ ret.historical[k].ma_20 # NoNum

\* The terms of the confidence score, in hundredths.
NewsTerm(e) ==
    IF e.has_significant_news /\ e.news_count >= 3 THEN 20
    ELSE IF e.news_count >= 1 THEN 10 ELSE 0

VolumeTerm(e) == IF e.volume_spike THEN 15 ELSE 0

ClassificationTerm(e) ==
    CASE e.classification \in {"market_driven", "stock_specific"} -> 10
      [] e.classification = "sector_driven" -> 5
      [] OTHER -> 0

SmallMovePenalty(e) == IF Abs(e.price_change_pct) < 100 THEN 10 ELSE 0

ConflictPenalty(e) == IF e.volume_spike /\ ~e.has_significant_news THEN 5 ELSE 0

Clamp(x, lo, hi) == IF x < lo THEN lo ELSE IF x > hi THEN hi ELSE x

\* C19: on the Parsed path the confidence is clamp(0.5 + news term + volume
\* term + classification term - small-move penalty - conflict penalty,
\* 0.3, 0.95) of the evidence of the explanation.
C19_ParsedConfidenceFormula ==
    (result.kind = "explanation" /\ result.path = "parsed") =>
        LET e == result.evidence
        IN  result.confidence =
                Clamp(50 + NewsTerm(e) + VolumeTerm(e) + ClassificationTerm(e)
                         - SmallMovePenalty(e) - ConflictPenalty(e), 30, 95)

\* C19 witness: a Parsed explanation of a move below 1% with a volume spike
\* and no significant news, so that both penalties apply.
C19_Witness ==
    /\ result.kind = "explanation"
    /\ result.path = "parsed"
    /\ result.evidence.volume_spike
    /\ ~result.evidence.has_significant_news
    /\ Abs(result.evidence.price_change_pct) < 100
    /\ result.evidence.news_count >= 1

\* The text that opens the primary driver for a classification.
FallbackDriverOpening(classification) ==
    CASE classification = "market_driven" -> "Moved in line with broader market"
      [] classification = "sector_driven" -> "Followed sector trend"
      [] OTHER -> "Stock-specific movement of"

\* C20: a Fallback explanation has a non-empty primary_driver selected by
\* the classification, exactly two supporting factors (the volume ratio
\* statement, then the market-context statement) and confidence 0.4, and it
\* is the same whatever the oracle answered: it equals the explanation
\* obtained from the same move with an oracle that fails.
C20_FallbackFromEvidenceOnly ==
    (result.kind = "explanation" /\ result.path = "fallback") =>
        /\ result.primary_driver # <<>>
        /\ Head(result.primary_driver) = FallbackDriverOpening(result.move_classification)
        /\ Len(result.supporting_factors) = 2
        /\ Head(result.supporting_factors[1]) = "Volume was"
        /\ Head(result.supporting_factors[2]) = "Market context:"
        /\ result.confidence = 40
        /\ result = explain_move([world EXCEPT !.oracle = OracleFailed])

\* C20 witness: a Fallback explanation of a sector_driven move after the
\* oracle returned a message without content.
C20_Witness ==
    /\ result.kind = "explanation"
    /\ result.path = "fallback"
    /\ world.oracle = OracleNoContent
    /\ result.move_classification = "sector_driven"

(***************************************************************************)
(* The average volume behind the volume ratio                              *)
(* src/src/market_data.py : detect_volume_anomaly                          *)
(* src/backend/services/market_data.py : get_stock_data                    *)
(* src/backend/services/alphavantage_service.py : get_stock_data           *)
(***************************************************************************)

MaxVolumeBars == 32

\* "hist_data[-20:]" and "sorted(time_series.keys(), reverse=True)[:20]"
volume_window == 20

\* int(sum / len), and the value of the empty-list guard.
IntMean(volumes, empty) ==
    IF volumes = <<>> THEN empty ELSE SumSeq(volumes) \div Len(volumes)

\* get_stock_data of the Yahoo service: the rows fetched end with the target
\* day; the zero volumes of the last 20 rows are left out of the average.
YahooAvgVolume20d(before, target) ==
    IntMean(SelectSeq(LastN(before \o <<target>>, volume_window), LAMBDA v : v > 0), 0)

\* get_stock_data of the Alpha Vantage service: the 20 most recent dates of
\* the series, whatever the target date; an empty list gives the day's volume.
AlphaAvgVolume20d(before, target, after) ==
    IntMean(LastN(before \o <<target>> \o after, volume_window), target)

VolumeInit ==
    /\ args \in {[kind |-> "avg_volume",
                  before |-> [i \in 1..n |-> 100 + i],
                  target |-> t,
                  after |-> [i \in 1..m |-> 500]] :
                    n \in 0..MaxVolumeBars, t \in {100, 1000}, m \in 0..2}
    /\ ret = NoRec

AvgVolume ==
    /\ args.kind = "avg_volume"
    /\ ret = NoRec
    /\ ret' = [kind |-> "avg_volumes",
               engine |-> detect_volume_anomaly(
                              Day(<<1000>>, 1000, args.before, args.target)).avg_volume,
               yahoo |-> YahooAvgVolume20d(args.before, args.target),
               alpha |-> AlphaAvgVolume20d(args.before, args.target, args.after)]
    /\ UNCHANGED <<args, engineVars, clsVars, batchVars, backendVars>>

InitVolume == VolumeInit /\ EngineIdle /\ ClsIdle /\ BatchIdle /\ BackendIdle

NextVolume == AvgVolume

SpecVolume == InitVolume /\ [][NextVolume]_vars

\* C21: the average volume is the mean of the volumes of the (at most
\* window) bars strictly preceding the target date; neither the target
\* day's volume nor a later bar enters it.
C21_AverageOfPrecedingBars ==
    ret.kind = "avg_volumes" =>
        /\ ret.engine = IntMean(LastN(args.before, lookback_days), 0)
        /\ ret.yahoo = IntMean(LastN(args.before, volume_window), 0)
        /\ ret.alpha = IntMean(LastN(args.before, volume_window), 0)

(***************************************************************************)
(* Gate flags against the reported numbers                                 *)
(***************************************************************************)

PriceFlagAgrees(price_metrics) ==
    price_metrics.is_significant <=> Abs(price_metrics.price_change_pct) >= 200

VolumeFlagAgrees(volume_metrics) ==
    volume_metrics.volume_spike <=> volume_metrics.volume_ratio >= 150

\* C22: in every record returned, is_significant is true exactly when the
\* reported |price_change_pct| is at least 2.0, and volume_spike is true
\* exactly when the reported volume_ratio is at least 1.5.
C22_FlagsAgreeWithReportedNumbers ==
    move.kind = "move_analysis" =>
        /\ PriceFlagAgrees(move.price_metrics)
        /\ VolumeFlagAgrees(move.volume_metrics)

(***************************************************************************)
(* src/src/news_data.py : summarize_news                                   *)
(***************************************************************************)

MaxSummaryArticles == 3

significant_keywords ==
    {<<"e", "a", "r", "n", "i", "n", "g", "s">>,
     <<"r", "e", "v", "e", "n", "u", "e">>,
     <<"p", "r", "o", "f", "i", "t">>,
     <<"l", "o", "s", "s">>,
     <<"b", "e", "a", "t">>,
     <<"m", "i", "s", "s">>,
     <<"m", "e", "r", "g", "e", "r">>,
     <<"a", "c", "q", "u", "i", "s", "i", "t", "i", "o", "n">>,
     <<"l", "a", "w", "s", "u", "i", "t">>,
     <<"i", "n", "v", "e", "s", "t", "i", "g", "a", "t", "i", "o", "n">>,
     <<"f", "d", "a">>,
     <<"a", "p", "p", "r", "o", "v", "e", "d">>,
     <<"r", "e", "j", "e", "c", "t", "e", "d">>,
     <<"g", "u", "i", "d", "a", "n", "c", "e">>,
     <<"o", "u", "t", "l", "o", "o", "k">>,
     <<"C", "E", "O">>,
     <<"l", "a", "y", "o", "f", "f">>}

SummaryTitles ==
    {<<"N", "e", "w", " ", "C", "E", "O">>,
     <<"n", "e", "w", " ", "c", "e", "o">>,
     <<"E", "A", "R", "N", "I", "N", "G", "S">>,
     <<"L", "a", "y", "o", "f", "f">>,
     <<"S", "u", "n", "n", "y">>,
     <<"d", "i", "s", "m", "i", "s", "s">>}

summarize_news(articles) ==
    IF articles = <<>>
    THEN [count |-> 0, has_significant_news |-> FALSE]
    ELSE [count |-> Len(articles),
          has_significant_news |->
              \E i \in 1..Len(articles) : \E keyword \in significant_keywords :
                  str_contains(keyword, str_lower(articles[i].title))]

SummaryInit ==
    /\ args \in {[kind |-> "articles", articles |-> a] :
                    a \in SeqsUpTo([title : SummaryTitles], MaxSummaryArticles)}
    /\ ret = NoRec

Summarize ==
    /\ args.kind = "articles"
    /\ ret = NoRec
    /\ ret' = [kind |-> "news_summary", summary |-> summarize_news(args.articles)]
    /\ UNCHANGED <<args, engineVars, clsVars, batchVars, backendVars>>

InitSummary == SummaryInit /\ EngineIdle /\ ClsIdle /\ BatchIdle /\ BackendIdle

NextSummary == Summarize

SpecSummary == InitSummary /\ [][NextSummary]_vars

ContainsIgnoringCase(keyword, title) == str_contains(str_lower(keyword), str_lower(title))

\* C23: has_significant_news is true exactly when at least one article
\* title contains, ignoring letter case, one of the fixed keywords ('CEO'
\* included); an empty article list yields false.
C23_SignificantNewsKeywords ==
    ret.kind = "news_summary" =>
        (ret.summary.has_significant_news <=>
            \E i \in 1..Len(args.articles) : \E keyword \in significant_keywords :
                ContainsIgnoringCase(keyword, args.articles[i].title))

(***************************************************************************)
(* src/backend/services/news_service.py : get_news ranking                 *)
(***************************************************************************)

MaxRankedArticles == 4

MaxRequested == 2

RankedSources ==
    {<<"C", "N", "B", "C">>,
     <<"r", "e", "u", "t", "e", "r", "s", ".", "c", "o", "m">>,
     <<"F", "o", "r", "b", "e", "s", " ", "v", "i", "a", " ", "Y", "a", "h", "o", "o", " ", "F", "i", "n", "a", "n", "c", "e">>,
     <<"S", "o", "m", "e", " ", "B", "l", "o", "g">>}

RankedInit ==
    /\ args \in {[kind |-> "get_news", articles |-> a, max_articles |-> n] :
                    a \in SeqsUpTo([title : {"Fed holds rates"}, source : RankedSources],
                                   MaxRankedArticles),
                    n \in 1..MaxRequested}
    /\ ret = NoRec

RankNews ==
    /\ args.kind = "get_news"
    /\ ret = NoRec
    /\ ret' = [kind |-> "ranked_news",
               items |-> get_news_limited(args.articles, args.max_articles)]
    /\ UNCHANGED <<args, engineVars, clsVars, batchVars, backendVars>>

InitRanked == RankedInit /\ EngineIdle /\ ClsIdle /\ BatchIdle /\ BackendIdle

NextRanked == RankNews

SpecRanked == InitRanked /\ [][NextRanked]_vars

\* Number of items of a list with a given credibility.
CountWithScore(items, score) ==
    Cardinality({i \in 1..Len(items) : items[i].credibility_score = score})

ScoreOfSource(source) == get_source_credibility(source)

\* The scores of the articles get_news looked at: the first 2 * max_articles.
ScoredScores(articles, limit) ==
    [i \in 1..Min2(2 * limit, Len(articles)) |->
        [credibility_score |-> ScoreOfSource(articles[i].source)]]

MatchesNoTableKey(source) ==
    \A i \in 1..Len(SOURCE_CREDIBILITY) :
        /\ SOURCE_CREDIBILITY[i].known_source # source
        /\ ~str_contains(str_lower(SOURCE_CREDIBILITY[i].known_source), str_lower(source))

\* C24: get_news returns at most max_articles items, ordered by
\* credibility_score non-increasing; no scored article that was left out
\* has a strictly higher credibility than one that was returned; every
\* credibility_score lies in [0.65, 0.95], and is 0.65 for a source that
\* matches no table key.
C24_RankedByCredibility ==
    ret.kind = "ranked_news" =>
        LET items == ret.items
            scored == ScoredScores(args.articles, args.max_articles)
            scores == 0..100
        IN  /\ Len(items) <= args.max_articles
            /\ \A i, j \in 1..Len(items) :
                   i < j => items[i].credibility_score >= items[j].credibility_score
            /\ \A s \in scores : CountWithScore(items, s) <= CountWithScore(scored, s)
            /\ \A s \in scores :
                   CountWithScore(items, s) < CountWithScore(scored, s)
                       => \A i \in 1..Len(items) : s <= items[i].credibility_score
            /\ \A i \in 1..Len(items) :
                   /\ items[i].credibility_score \in 65..95
                   /\ MatchesNoTableKey(items[i].source) => items[i].credibility_score = 65

\* A blog article arrives first and is left out while two better-rated
\* ones, one matched by substring, are returned in order.
C24_Witness ==
    /\ ret.kind = "ranked_news"
    /\ args.max_articles = 2
    /\ Len(args.articles) = 4
    /\ args.articles[1].source = <<"S", "o", "m", "e", " ", "B", "l", "o", "g">>
    /\ Len(ret.items) = 2
    /\ ret.items[1].source = <<"r", "e", "u", "t", "e", "r", "s", ".", "c", "o", "m">>
    /\ ret.items[2].source = <<"F", "o", "r", "b", "e", "s", " ", "v", "i", "a", " ", "Y", "a", "h", "o", "o", " ", "F", "i", "n", "a", "n", "c", "e">>
    /\ ret.items[1].credibility_score > ret.items[2].credibility_score

(***************************************************************************)
(* src/backend/services/market_data.py : _fetch_yahoo_data                 *)
(***************************************************************************)

MaxRetries == 3

\* What one "session.get" and the parsing of its answer can come to:
\*   "connection_error"  connection error or timeout     (RequestException)
\*   "http_error"        raise_for_status                (RequestException)
\*   "not_json"          response.json() fails on the body
\*   "invalid_format"    no chart/result key             (ValueError)
\*   "no_data"           empty result                    (ValueError)
\*   "no_timestamps"     no timestamp list               (ValueError)
\*   "no_valid_data"     no bar with both open and close (ValueError)
\*   "ok"                a list of bars
RequestOutcomes ==
    {"connection_error", "http_error", "not_json", "invalid_format", "no_data",
     "no_timestamps", "no_valid_data", "ok"}

\* response.json() raises requests.exceptions.JSONDecodeError, a
\* RequestException, with requests 2.27 and later, and a plain ValueError
\* with older releases; the repository pins no version.
JsonErrorBuilds == BOOLEAN

IsRequestException(outcome, json_error_is_request_exception) ==
    \/ outcome \in {"connection_error", "http_error"}
    \/ outcome = "not_json" /\ json_error_is_request_exception

YahooInit ==
    /\ args \in {[kind |-> "fetch_yahoo", max_retries |-> n,
                  json_error_is_request_exception |-> b] :
                    n \in 1..MaxRetries, b \in JsonErrorBuilds}
    /\ ret = NoRec

\* One iteration of "for attempt in range(max_retries)".  Until the call
\* returns or raises, ret holds the loop position and the outcomes so far.
YahooAttempt ==
    /\ args.kind = "fetch_yahoo"
    /\ ret.kind \in {"none", "in_loop"}
    /\ \E outcome \in RequestOutcomes :
         LET attempt == IF ret.kind = "none" THEN 0 ELSE ret.attempt
             outcomes == (IF ret.kind = "none" THEN <<>> ELSE ret.outcomes) \o <<outcome>>
         IN  ret' = IF outcome = "ok"
                    THEN [kind |-> "returned", attempt |-> attempt, outcomes |-> outcomes]
                    ELSE IF IsRequestException(outcome, args.json_error_is_request_exception)
                    THEN IF attempt < args.max_retries - 1
                         THEN [kind |-> "in_loop", attempt |-> attempt + 1,
                               outcomes |-> outcomes]
                         ELSE [kind |-> "raised", attempt |-> attempt,
                               outcomes |-> outcomes]
                    ELSE [kind |-> "raised", attempt |-> attempt, outcomes |-> outcomes]
    /\ UNCHANGED <<args, engineVars, clsVars, batchVars, backendVars>>

InitYahoo == YahooInit /\ EngineIdle /\ ClsIdle /\ BatchIdle /\ BackendIdle

NextYahoo == YahooAttempt

SpecYahoo == InitYahoo /\ [][NextYahoo]_vars

TransportError(outcome) == outcome \in {"connection_error", "http_error"}

\* C25: at most max_retries requests per call; a further request only after
\* a transport error; after max_retries consecutive transport errors the
\* call raises; a non-transport error (bad format, no data, parse failure)
\* is surfaced on its first occurrence without any retry.
C25_RetryOnlyOnTransportError ==
    (args.kind = "fetch_yahoo" /\ ret.kind # "none") =>
        /\ Len(ret.outcomes) <= args.max_retries
        /\ \A i \in 1..(Len(ret.outcomes) - 1) : TransportError(ret.outcomes[i])
        /\ (Len(ret.outcomes) = args.max_retries
               /\ \A i \in 1..Len(ret.outcomes) : TransportError(ret.outcomes[i]))
              => ret.kind = "raised"
        /\ \A i \in 1..Len(ret.outcomes) :
               ~TransportError(ret.outcomes[i]) /\ ret.outcomes[i] # "ok"
                   => i = Len(ret.outcomes) /\ ret.kind = "raised"

(***************************************************************************)
(* src/src/news_data.py : fetch_news_for_symbol over its two providers     *)
(***************************************************************************)

MaxProviderArticles == 3

\* An article or feed entry that carries no "title" key at all.
Missing == "Missing"

\* What NewsAPI can answer: an error, or articles whose title is a string,
\* null (None) or absent.
NewsApiResponses ==
    {[ok |-> FALSE, articles |-> <<>>]}
    \cup {[ok |-> TRUE, articles |-> a] :
            a \in SeqsUpTo([title : {"Fed holds rates", "Apple beats earnings", None, Missing},
                            source : {<<"C", "N", "B", "C">>}], MaxProviderArticles)}

\* What the RSS feed can give: an error, or entries with or without a title.
RssFeeds ==
    {[ok |-> FALSE, articles |-> <<>>]}
    \cup {[ok |-> TRUE, articles |-> a] :
            a \in SeqsUpTo([title : {"Fed holds rates", Missing},
                            source : {<<"C", "N", "B", "C">>}], MaxProviderArticles)}

\* _fetch_from_newsapi and _fetch_from_google_news_rss: the request and the
\* loop reading article['title'] / entry.title are inside one try; any
\* exception gives [].
fetch_from_provider(response) ==
    IF ~response.ok THEN <<>>
    ELSE IF \E i \in 1..Len(response.articles) : response.articles[i].title = Missing
    THEN <<>>
    ELSE response.articles

\* fetch_news_for_symbol: _filter_and_deduplicate runs outside every try and
\* calls article['title'].lower() on each article.
fetch_news_from_providers(has_client, response, feed) ==
    LET newsapi_articles == IF has_client THEN fetch_from_provider(response) ELSE <<>>
        articles == IF Len(newsapi_articles) < 3
                    THEN newsapi_articles \o fetch_from_provider(feed)
                    ELSE newsapi_articles
    IN  IF \E i \in 1..Len(articles) : articles[i].title = None
        THEN RaiseRec("AttributeError")
        ELSE [kind |-> "articles", articles |-> fetch_news_for_symbol(articles)]

ProvidersInit ==
    /\ args \in {[kind |-> "fetch_news", has_client |-> c, response |-> r, feed |-> f] :
                    c \in BOOLEAN, r \in NewsApiResponses, f \in RssFeeds}
    /\ ret = NoRec

FetchFromProviders ==
    /\ args.kind = "fetch_news"
    /\ ret = NoRec
    /\ ret' = fetch_news_from_providers(args.has_client, args.response, args.feed)
    /\ UNCHANGED <<args, engineVars, clsVars, batchVars, backendVars>>

InitProviders == ProvidersInit /\ EngineIdle /\ ClsIdle /\ BatchIdle /\ BackendIdle

NextProviders == FetchFromProviders

SpecProviders == InitProviders /\ [][NextProviders]_vars

\* C26: a failure of any news source (provider error, malformed article
\* such as a missing title) never makes the news step fail: it yields the
\* articles obtained or an empty list.
C26_NewsFailureNeverFatal ==
    (args.kind = "fetch_news" /\ ret # NoRec) => ret.kind = "articles"

(***************************************************************************)
(* Both reply parsers on arbitrary replies                                 *)
(* src/src/ai_engine.py : _parse_explanation                               *)
(* src/backend/services/ai_engine.py : _parse_response                     *)
(***************************************************************************)

MaxParsedLines == 3

\* Lines an oracle may write: free text, a bullet, and section labels (the
\* backend does not know "EXPLANATION:", the engine does not know
\* "SUMMARY:").
ParsedLines ==
    {<<"stray">>, <<BULLET, "factor">>, <<PRIMARY_DRIVER, "driver">>,
     <<SUPPORTING_FACTORS>>, <<EXPLANATION>>, <<SUMMARY>>}

ParsersInit ==
    /\ args \in {[kind |-> "reply", lines |-> l] : l \in SeqsUpTo(ParsedLines, MaxParsedLines)}
    /\ ret = NoRec

ParseReply ==
    /\ args.kind = "reply"
    /\ ret = NoRec
    /\ ret' = [kind |-> "parsed_reply",
               engine |-> parse_explanation(args.lines),
               backend |-> parse_response(OracleReplied(args.lines))]
    /\ UNCHANGED <<args, engineVars, clsVars, batchVars, backendVars>>

InitParsers == ParsersInit /\ EngineIdle /\ ClsIdle /\ BatchIdle /\ BackendIdle

NextParsers == ParseReply

SpecParsers == InitParsers /\ [][NextParsers]_vars

\* The section label a line of the engine's reply format starts with.
EngineHeader(line) ==
    IF StartsWith(line, PRIMARY_DRIVER) THEN "primary"
    ELSE IF StartsWith(line, SUPPORTING_FACTORS) THEN "supporting"
    ELSE IF StartsWith(line, EXPLANATION) THEN "explanation"
    ELSE None

\* The section active at line i: that of the last header at or before i.
ActiveSection(lines, i, Header(_)) ==
    LET headers == {j \in 1..i : Header(lines[j]) # None}
    IN  IF headers = {} THEN None
        ELSE Header(lines[CHOOSE j \in headers : \A k \in headers : k <= j])

\* The bullet lines met while the list section is active, in reply order and
\* without the marker.
RECURSIVE BulletsOfListSection(_, _, _, _)
BulletsOfListSection(lines, i, Header(_), list_section) ==
    IF i > Len(lines) THEN <<>>
    ELSE (IF /\ Header(lines[i]) = None
             /\ StartsWith(lines[i], BULLET)
             /\ ActiveSection(lines, i, Header) = list_section
          THEN <<Tail(lines[i])>>
          ELSE <<>>) \o BulletsOfListSection(lines, i + 1, Header, list_section)

\* The reply from its first recognized header on.
FromFirstHeader(lines, Header(_)) ==
    LET headers == {j \in 1..Len(lines) : Header(lines[j]) # None}
    IN  IF headers = {} THEN <<>>
        ELSE SubSeq(lines, CHOOSE j \in headers : \A k \in headers : j <= k, Len(lines))

\* C27: each parser keeps one active section that changes only at a
\* recognized header; while the list section is active only bullet lines
\* are accepted, in reply order and without the marker; lines seen before
\* any recognized header change no parsed field.
C27_ParserStateMachine ==
    ret.kind = "parsed_reply" =>
        /\ ret.backend.supporting_factors
               = BulletsOfListSection(args.lines, 1, HeaderSection, "supporting_factors")
        /\ ret.engine.supporting_factors
               = BulletsOfListSection(args.lines, 1, EngineHeader, "supporting")
        /\ ret.backend = parse_response(OracleReplied(FromFirstHeader(args.lines, HeaderSection)))
        /\ ret.engine = parse_explanation(FromFirstHeader(args.lines, EngineHeader))

(***************************************************************************)
(* src/backend/services/ai_engine.py : the confidence section              *)
(***************************************************************************)

MaxConfidenceLines == 3

ConfidenceLines ==
    {<<CONFIDENCE_SCORE>>, <<SUMMARY>>, <<"0.9">>, <<"1.5">>, <<"-0.2">>, <<"high">>}

ConfidenceReplies ==
    {OracleNoContent}
        \cup {OracleReplied(t) : t \in SeqsUpTo(ConfidenceLines, MaxConfidenceLines)}

ConfidenceInit ==
    /\ args \in {[kind |-> "oracle_reply", oracle |-> o] : o \in ConfidenceReplies}
    /\ ret = NoRec

ParseConfidence ==
    /\ args.kind = "oracle_reply"
    /\ ret = NoRec
    /\ ret' = [kind |-> "parsed_confidence",
               confidence_score |-> parse_response(args.oracle).confidence_score]
    /\ UNCHANGED <<args, engineVars, clsVars, batchVars, backendVars>>

InitConfidence == ConfidenceInit /\ EngineIdle /\ ClsIdle /\ BatchIdle /\ BackendIdle

NextConfidence == ParseConfidence

SpecConfidence == InitConfidence /\ [][NextConfidence]_vars

\* The lines of a reply that parse as a number while the confidence section
\* is active.
ScoreLines(lines) ==
    {i \in 1..Len(lines) :
        /\ HeaderSection(lines[i]) = None
        /\ ActiveSection(lines, i, HeaderSection) = "confidence_score"
        /\ ParsesAsFloat(lines[i])}

EvaluationOrder ==
    <<"analyze_move", "get_market_context", "analyze_performance_context",
      "fetch_news", "oracle">>

OracleCalls == Cardinality({i \in 1..Len(calls) : calls[i] = "oracle"})

MaxScoreNews == 3

\* The evidence fields _calculate_confidence reads, the price and volume
\* ones computed from a day's bars as analyze_move computes them.
ScoreEvidence(stock_day, classification, news_count, has_significant_news) ==
    LET price_metrics == calculate_price_change(stock_day)
        volume_metrics == detect_volume_anomaly(stock_day)
    IN  [price_change_pct |-> price_metrics.price_change_pct,
         is_significant |-> price_metrics.is_significant,
         volume_spike |-> volume_metrics.volume_spike,
         classification |-> classification,
         news_count |-> news_count,
         has_significant_news |-> has_significant_news]

ScoreInit ==
    /\ args \in {[kind |-> "score",
                  evidence |-> ScoreEvidence(Day(p[1], p[2], v[1], v[2]), c, n, h)] :
                    p \in PricePairs, v \in VolumeProfiles, c \in Classifications,
                    n \in 0..MaxScoreNews, h \in BOOLEAN}
    /\ ret = NoRec

Score ==
    /\ args.kind = "score"
    /\ ret = NoRec
    /\ ret' = [kind |-> "scored",
               requires_explanation |-> args.evidence.is_significant
                                          \/ args.evidence.volume_spike,
               before_clamp |-> confidence_before_clamp(args.evidence),
               confidence |-> calculate_confidence(args.evidence)]
    /\ UNCHANGED <<args, engineVars, clsVars, batchVars, backendVars>>

InitScore == ScoreInit /\ EngineIdle /\ ClsIdle /\ BatchIdle /\ BackendIdle

NextScore == Score

SpecScore == InitScore /\ [][NextScore]_vars

\* C30: for every combination of evidence values the score before the clamp
\* lies between 0.40 and 0.95, so the clamp leaves it unchanged and it is
\* never below the fallback value 0.4; when the gate passed it is at least
\* 0.50.
C30_ScoreRange ==
    ret.kind = "scored" =>
        /\ 40 <= ret.before_clamp /\ ret.before_clamp <= 95
        /\ ret.confidence = ret.before_clamp
        /\ ret.requires_explanation => ret.before_clamp >= 50

\* A volume spike on a move below 1% without news: 0.5 + 0.15 - 0.1 - 0.05,
\* the lowest score behind the gate.
C30_Witness ==
    /\ ret.kind = "scored"
    /\ ret.requires_explanation
    /\ args.evidence.volume_spike
    /\ Abs(args.evidence.price_change_pct) < 100
    /\ args.evidence.news_count = 0
    /\ args.evidence.classification = "mixed_influence"
    /\ ret.before_clamp = 50

=============================================================================
